---- MODULE Spec2Model ----
(***************************************************************************)
(* ITSM request-creation flow of the chat bot: the per-conversation state  *)
(* machine of src/src/components/itsm/index.mjs, the routing of            *)
(* src/src/bot/JiraBot.mjs and the state store of                          *)
(* src/src/state/conversation.mjs.  One action is one inbound message,     *)
(* handled to completion (one message at a time per conversation).         *)
(***************************************************************************)
EXTENDS Integers, Sequences, FiniteSets, TLC

VARIABLES store, ev, timers, pure, pending

vars == <<store, ev, timers, pure, pending>>

\* ------------------------------------------------------------------------
\* Bounds
\* ------------------------------------------------------------------------

\* numeric inputs range over "0" .. MaxIndex
MaxIndex == 3

\* the longest list of portal fields given to Field Reconciliation on its own
MaxPortalFields == 2

\* handlers of one conversation suspended at an await at the same time
MaxPending == 2

\* state objects built by startRequestCreation in one run
MaxObjects == 2

\* the retries of a request (config.retries)
MaxRetries == 2

\* ------------------------------------------------------------------------
\* JavaScript values
\* ------------------------------------------------------------------------

\* null / undefined of a list- or object-valued property
NullV == [isNull |-> TRUE]

\* null / undefined of an array-valued property
NullList == <<NullV>>

\* the id of "no entity" (null)
NullId == "null"

\* getState's {} for a conversation without a stored state
NoState == [empty |-> TRUE]

\* a stored value: text, {id}, [{id}, ...], null
TextVal(t) == [k |-> "text", v |-> t]
IdVal(i) == [k |-> "id", v |-> i]
IdsVal(ids) == [k |-> "ids", ids |-> ids]
NullVal == [k |-> "null", v |-> ""]

\* a form answer: {text}, {choices:[id]}, null
TextAns(t) == [k |-> "text", v |-> t]
ChoiceAns(i) == [k |-> "choices", v |-> i]
NullAns == [k |-> "null", v |-> ""]

\* ------------------------------------------------------------------------
\* Inputs: the text of a message, after trim()
\* ------------------------------------------------------------------------

Digits == <<"0", "1", "2", "3", "4", "5", "6", "7", "8", "9">>

NumTexts == {Digits[i + 1] : i \in 0..MaxIndex}

Words == {"cancel", "CANCEL", "back", "yes", "YES", "y", "retry", "no", "n",
          "skip", "it", "create request", "itsm create", "", "1,3", "1,9"}

Texts == NumTexts \cup Words

\* String.prototype.toLowerCase over the input alphabet
toLowerCase(t) ==
  CASE t = "CANCEL" -> "cancel"
    [] t = "YES" -> "yes"
    [] t = "IT" -> "it"
    [] t = "HR" -> "hr"
    [] t = "Low" -> "low"
    [] t = "High" -> "high"
    [] t = "Red" -> "red"
    [] t = "Green" -> "green"
    [] t = "Blue" -> "blue"
    [] t = "Urgency" -> "urgency"
    [] t = "Impact" -> "impact"
    [] t = "Impact " -> "impact "
    [] t = "Notes" -> "notes"
    [] t = "Attachment" -> "attachment"
    [] t = "Tags" -> "tags"
    [] OTHER -> t

\* String.prototype.trim over the labels of the catalogue
trim(t) ==
  CASE t = "impact " -> "impact"
    [] t = "Impact " -> "Impact"
    [] OTHER -> t

\* parseInt(t, 10): the number, or NaN
IsNaN(t) == t \notin {Digits[i] : i \in 1..Len(Digits)}

parseInt(t) == CHOOSE n \in 0..(Len(Digits) - 1) : Digits[n + 1] = t

\* userInput.split(',').map(v => v.trim()) over the input alphabet
split(t) ==
  CASE t = "1,3" -> <<"1", "3">>
    [] t = "1,9" -> <<"1", "9">>
    [] OTHER -> <<t>>

\* ------------------------------------------------------------------------
\* Upstream catalogue (what the ticketing service answers when it answers)
\* ------------------------------------------------------------------------

StrId(n) == [t |-> "str", v |-> n]
IntId(n) == [t |-> "int", v |-> n]

Desk(id, key) == [id |-> id, projectKey |-> key]

UpServiceDesks == <<Desk("d1", "IT"), Desk("d2", "HR")>>

PortalGroup(n) == [id |-> StrId(n)]

UpPortalGroups(deskId) ==
  IF deskId = "d1" THEN <<PortalGroup(1), PortalGroup(2), PortalGroup(3)>> ELSE <<>>

\* a request type; groupIds is NullList when the property is absent
RequestType(id, groupIds) == [id |-> id, groupIds |-> groupIds]

UpRequestTypes(deskId) ==
  IF deskId = "d1"
    THEN << RequestType("rt1", <<StrId(1)>>),
            RequestType("rt2", <<IntId(1)>>),
            RequestType("rt3", <<StrId(2)>>),
            RequestType("rt4", NullList),
            RequestType("rt5", <<IntId(2), StrId(7)>>) >>
    ELSE <<>>

\* an entry {id, name} of validValues
ValidValue(id, name) == [id |-> id, name |-> name]

\* a display name: the label, decorated with a row number when row > 0
Name(label, row) == [label |-> label, row |-> row]

\* a portal field as returned by the field endpoint (visible ones)
PortalField(fieldId, name, required, schemaType, items, validValues) ==
  [fieldId |-> fieldId, name |-> name, required |-> required,
   schemaType |-> schemaType, items |-> items, validValues |-> validValues]

UpPortalFields(rtId) ==
  CASE rtId = "rt2" ->
         << PortalField("customfield_1", "Urgency", FALSE, "option", "",
                        <<ValidValue("u1", "Low"), ValidValue("u2", "High")>>) >>
    [] rtId = "rt3" ->
         << PortalField("attachment", "Attachment", TRUE, "array", "attachment", <<>>),
            PortalField("customfield_2", "Notes", FALSE, "string", "", <<>>) >>
    [] rtId = "rt5" ->
         << PortalField("customfield_3", "Tags", FALSE, "array", "option",
                        <<ValidValue("t1", "Red"), ValidValue("t2", "Green"),
                          ValidValue("t3", "Blue")>>) >>
    [] OTHER -> <<>>

\* a question of a form template
Question(label, type, required, choices) ==
  [label |-> label, type |-> type, required |-> required, choices |-> choices]

\* a question as returned by extractFormQuestions
FormQuestion(id, q) ==
  [id |-> id, label |-> q.label, type |-> q.type, required |-> q.required,
   choices |-> q.choices]

Choice(id, label) == [id |-> id, label |-> label]

\* the form template of a request type, or NullV
UpForm(rtId) ==
  IF rtId = "rt5"
    THEN [id |-> "", templateId |-> "", nestedId |-> "", sections |-> <<>>,
          keys |-> <<>>, questions |-> <<>>]
  ELSE IF rtId = "rt2"
    THEN [id |-> "tpl2", templateId |-> "", nestedId |-> "",
          sections |-> << <<"q1">>, <<"q2">> >>,
          keys |-> <<"q2", "q1">>,
          questions |->
            [q \in {"q1", "q2"} |->
               IF q = "q1"
                 THEN Question("urgency", "cd", TRUE,
                               <<Choice("s1", "Low"), Choice("s9", "Other")>>)
               ELSE Question("Impact", "cd", FALSE,
                             <<Choice("c1", "High"), Choice("c9", "Other...")>>)]]
    ELSE NullV

IssueKeys == {"IT-1", "IT-2"}

BaseUrl == "https://jira.example"

\* ------------------------------------------------------------------------
\* Pure helpers
\* ------------------------------------------------------------------------

IsNull(v) == v = NullV

IsNullList(list) == list = NullList

\* list?.length, 0 for null or undefined
LengthOf(list) == IF IsNullList(list) THEN 0 ELSE Len(list)

\* mutant of selectFromList: the number is taken as a 0-based index
selectFromListZeroBased(input, list, useKey) ==
  IF LengthOf(list) = 0 THEN NullV
  ELSE IF ~IsNaN(input) /\ parseInt(input) >= 0 /\ parseInt(input) < Len(list)
    THEN list[parseInt(input) + 1]
  ELSE NullV

\* selectFromList(input, list, keyField); useKey: keyField is 'projectKey'
selectFromList(input, list, useKey) ==
  IF LengthOf(list) = 0 THEN NullV
  ELSE IF ~IsNaN(input) /\ parseInt(input) - 1 >= 0 /\ parseInt(input) - 1 < Len(list)
    THEN list[parseInt(input)]
  ELSE IF useKey
    THEN LET hits == {i \in 1..Len(list) :
                        toLowerCase(list[i].projectKey) = toLowerCase(input)}
         IN IF hits = {} THEN NullV
            ELSE list[CHOOSE i \in hits : \A j \in hits : i <= j]
  ELSE NullV

\* mutant of getFieldType: no field is taken for an attachment
getFieldTypeNoAttachment(field) ==
  CASE field.fieldId = "summary" -> "text"
    [] field.fieldId = "description" -> "textarea"
    [] field.fieldId = "priority" -> "select"
    [] OTHER ->
         IF field.schemaType = "array"
           THEN IF Len(field.validValues) > 0 THEN "multiselect" ELSE "array"
         ELSE IF field.schemaType = "option" \/ Len(field.validValues) > 0 THEN "select"
         ELSE IF field.schemaType \in {"user", "date", "datetime", "number"}
           THEN field.schemaType
         ELSE "text"

\* ITSMService.getFieldType
getFieldType(field) ==
  CASE field.fieldId = "summary" -> "text"
    [] field.fieldId = "description" -> "textarea"
    [] field.fieldId = "attachment" -> "attachment"
    [] field.fieldId = "priority" -> "select"
    [] OTHER ->
         IF field.schemaType = "array"
           THEN IF field.items = "attachment" THEN "attachment"
                ELSE IF Len(field.validValues) > 0 THEN "multiselect"
                ELSE "array"
         ELSE IF field.schemaType = "option" \/ Len(field.validValues) > 0 THEN "select"
         ELSE IF field.schemaType \in {"user", "date", "datetime", "number"}
           THEN field.schemaType
         ELSE "text"

RECURSIVE Flatten(_)
Flatten(seqs) == IF seqs = <<>> THEN <<>> ELSE Head(seqs) \o Flatten(Tail(seqs))

\* mutant of extractFormQuestions: the sections are ignored, the questions
\* come in the order of Object.keys
extractFormQuestionsKeyOrder(formTemplate) ==
  IF IsNull(formTemplate) THEN <<>>
  ELSE [i \in 1..Len(formTemplate.keys) |->
          FormQuestion(formTemplate.keys[i], formTemplate.questions[formTemplate.keys[i]])]

\* ITSMService.extractFormQuestions
extractFormQuestions(formTemplate) ==
  IF IsNull(formTemplate) THEN <<>>
  ELSE IF DOMAIN formTemplate.questions = {} THEN <<>>
  ELSE LET orderedIds == Flatten(formTemplate.sections)
           questionIds == IF Len(orderedIds) > 0 THEN orderedIds ELSE formTemplate.keys
           known == SelectSeq(questionIds, LAMBDA id : id \in DOMAIN formTemplate.questions)
       IN [i \in 1..Len(known) |-> FormQuestion(known[i], formTemplate.questions[known[i]])]

\* label.toLowerCase().trim(): the key of the label map (reconciliation,
\* steps 1 and 2)
trimLower(label) == trim(toLowerCase(label))

\* the label of a choice starts with "other", case-insensitive
startsWithOther(label) == label \in {"Other", "Other...", "other", "OTHER (specify)"}

OtherChoice == ValidValue("__other__", "Other (type custom value)")

\* validValues of a form-only field (reconciliation, step 4)
formValidValues(choices) ==
  LET kept == SelectSeq(choices, LAMBDA ch : ~startsWithOther(ch.label))
      vals == [i \in 1..Len(kept) |-> ValidValue(kept[i].id, kept[i].label)]
  IN IF Len(kept) > 0 THEN Append(vals, OtherChoice) ELSE <<>>

\* the field emitted for portal field pf (reconciliation, step 2)
portalEntry(pf, formQuestions) ==
  LET hits == {i \in 1..Len(formQuestions) :
                 trimLower(formQuestions[i].label) = trimLower(pf.name)}
  IN [fieldId |-> pf.fieldId, name |-> Name(pf.name, 0), required |-> pf.required,
      source |-> "portal",
      formQuestionId |-> IF hits = {} THEN NullId
                         ELSE formQuestions[CHOOSE i \in hits : \A j \in hits : i <= j].id,
      schemaType |-> pf.schemaType, items |-> pf.items,
      validValues |-> pf.validValues, isTableField |-> FALSE, rowNumber |-> 0]

\* mutant of formEntry: a repeated label is not turned into a row
formEntryNoRows(formOnly, i) ==
  LET q == formOnly[i]
  IN [fieldId |-> "form_" \o q.id, name |-> Name(q.label, 0),
      required |-> q.required, source |-> "form", formQuestionId |-> q.id,
      schemaType |-> q.type, items |-> "",
      validValues |-> formValidValues(q.choices),
      isTableField |-> FALSE, rowNumber |-> 0]

\* the field emitted for the form-only question at index i (reconciliation,
\* step 4): an occurrence whose label appeared earlier in the loop is a row
formEntry(formOnly, i) ==
  LET q == formOnly[i]
      row == Cardinality({j \in 1..i : formOnly[j].label = q.label})
      isTable == row > 1
  IN [fieldId |-> "form_" \o q.id, name |-> Name(q.label, IF isTable THEN row ELSE 0),
      required |-> q.required, source |-> "form", formQuestionId |-> q.id,
      schemaType |-> q.type, items |-> "",
      validValues |-> formValidValues(q.choices),
      isTableField |-> isTable, rowNumber |-> IF isTable THEN row ELSE 0]

\* mutant of prepareFieldsForCollection: the questions are not filtered by
\* the portal labels
prepareFieldsForCollectionKeepsAll(portalFields, formQuestions) ==
  [i \in 1..Len(portalFields) |-> portalEntry(portalFields[i], formQuestions)]
  \o [i \in 1..Len(formQuestions) |-> formEntry(formQuestions, i)]

\* Field Reconciliation: prepareFieldsForCollection(portalFields, formQuestions);
\* the portal label set of step 3 is lowercased, not trimmed
prepareFieldsForCollection(portalFields, formQuestions) ==
  LET portalLabels == {toLowerCase(portalFields[i].name) : i \in 1..Len(portalFields)}
      formOnly == SelectSeq(formQuestions,
                            LAMBDA q : toLowerCase(q.label) \notin portalLabels)
  IN [i \in 1..Len(portalFields) |-> portalEntry(portalFields[i], formQuestions)]
     \o [i \in 1..Len(formOnly) |-> formEntry(formOnly, i)]

\* ------------------------------------------------------------------------
\* Replies and upstream calls of one handled message
\* ------------------------------------------------------------------------

\* a content message sent with sendActivity
Reply(kind) ==
  [kind |-> kind, n |-> 0, items |-> <<>>, key |-> "", url |-> NullV, note |-> ""]

\* `Invalid selection. Enter 1-${n}.`
InvalidSelection(n) == [Reply("invalid_selection") EXCEPT !.n = n]

\* an upstream call and how it ended: "ok", "error", or the value returned
Call(op, arg, result) == [op |-> op, arg |-> arg, result |-> result]

\* ------------------------------------------------------------------------
\* Conversation state store
\* ------------------------------------------------------------------------

getState(c) == store[c]

\* mutant of deleteState: the entry is kept
deleteStateKeeps(c) == store

\* mutant of setState: one state object shared by all conversations
setStateShared(c, state) == [k \in DOMAIN store |-> state]

setState(c, state) == [store EXCEPT ![c] = state]

deleteState(c) == [store EXCEPT ![c] = NoState]

\* state.awaitingTicketDetails is truthy
awaitingTicketDetails(state) ==
  "awaitingTicketDetails" \in DOMAIN state /\ state.awaitingTicketDetails

\* state.awaitingITSMDetails is truthy
awaitingITSMDetails(state) ==
  "awaitingITSMDetails" \in DOMAIN state /\ state.awaitingITSMDetails

\* the state object built by startRequestCreation; the properties it does
\* not set are undefined
NewState(serviceDesks) ==
  [awaitingITSMDetails |-> TRUE,
   step |-> "select_service_desk",
   serviceDesks |-> serviceDesks,
   selectedServiceDesk |-> NullV,
   portalGroups |-> NullList,
   requestTypes |-> NullList,
   selectedPortalGroup |-> NullV,
   filteredRequestTypes |-> NullList,
   selectedRequestType |-> NullV,
   formTemplate |-> NullV,
   fieldCollection |-> NullV,
   requestTypeFieldsCache |-> <<>>,
   requestTypeFormsCache |-> <<>>]

StepOf(state) == IF state = NoState THEN "none" ELSE state.step

\* state.fieldCollection?.awaitingCustomValue
awaitingCustomValue(state) ==
  /\ "fieldCollection" \in DOMAIN state
  /\ state.fieldCollection # NullV
  /\ state.fieldCollection.awaitingCustomValue

\* the cursor of the state, -1 without a fieldCollection
CursorOf(state) ==
  IF "fieldCollection" \notin DOMAIN state \/ state.fieldCollection = NullV THEN -1
  ELSE state.fieldCollection.currentFieldIndex

\* the record of the last handled message of conversation c: its text, where
\* _handleMessage routed it, the step, flag and cursor it found, the content
\* messages sent and the upstream calls made, in order
Event(c, text, route, replies, calls) ==
  [conv |-> c, text |-> text, route |-> route,
   prev |-> StepOf(store[c]),
   prevCustom |-> awaitingCustomValue(store[c]),
   prevIndex |-> CursorOf(store[c]),
   replies |-> replies, calls |-> calls]

Convs == {"c1"}

\* no pure function is under evaluation
NoPure == [op |-> "none"]

\* no handler is suspended at an await and no state object was built
NoPending == [ref |-> [c \in Convs |-> 0], heap |-> <<>>, deleted |-> <<>>,
              handlers |-> <<>>, resurrected |-> FALSE]

Init ==
  /\ store = [c \in Convs |-> NoState]
  /\ ev = [conv |-> "c1", text |-> "", route |-> "init", prev |-> "none",
           prevCustom |-> FALSE, prevIndex |-> -1, replies |-> <<>>, calls |-> <<>>]
  /\ timers = 0
  /\ pure = NoPure
  /\ pending = NoPending

\* ------------------------------------------------------------------------
\* Command dispatch (no flow open)
\* ------------------------------------------------------------------------

\* mutant of startRequestCreation: the entry commands start a flow whatever
\* the stored state
startRequestCreationAnyState(c, text) ==
  /\ toLowerCase(text) \in {"itsm create", "create request"}
  /\ \E outcome \in {"ok", "empty", "fail"} :
       LET calls == <<Call("getServiceDesks", "", IF outcome = "fail" THEN "error" ELSE "ok")>>
       IN CASE outcome = "fail" ->
                 /\ store' = store
                 /\ UNCHANGED <<timers, pure, pending>>
                 /\ ev' = Event(c, text, "command", <<Reply("error")>>, calls)
            [] outcome = "empty" ->
                 /\ store' = store
                 /\ UNCHANGED <<timers, pure, pending>>
                 /\ ev' = Event(c, text, "command", <<Reply("no_service_desks")>>, calls)
            [] OTHER ->
                 /\ store' = setState(c, NewState(UpServiceDesks))
                 /\ UNCHANGED <<timers, pure, pending>>
                 /\ ev' = Event(c, text, "command", <<Reply("service_desks")>>, calls)

\* _handleMessage -> _routeCommand -> startRequestCreation
startRequestCreation(c, text) ==
  /\ ~awaitingTicketDetails(getState(c))
  /\ ~awaitingITSMDetails(getState(c))
  /\ toLowerCase(text) \in {"itsm create", "create request"}
  /\ \E outcome \in {"ok", "empty", "fail"} :
       LET calls == <<Call("getServiceDesks", "", IF outcome = "fail" THEN "error" ELSE "ok")>>
       IN CASE outcome = "fail" ->
                 /\ store' = store
                 /\ UNCHANGED <<timers, pure, pending>>
                 /\ ev' = Event(c, text, "command", <<Reply("error")>>, calls)
            [] outcome = "empty" ->
                 /\ store' = store
                 /\ UNCHANGED <<timers, pure, pending>>
                 /\ ev' = Event(c, text, "command", <<Reply("no_service_desks")>>, calls)
            [] OTHER ->
                 /\ store' = setState(c, NewState(UpServiceDesks))
                 /\ UNCHANGED <<timers, pure, pending>>
                 /\ ev' = Event(c, text, "command", <<Reply("service_desks")>>, calls)

\* _handleMessage -> _routeCommand, `cancel`
routeCancel(c, text) ==
  /\ ~awaitingTicketDetails(getState(c))
  /\ ~awaitingITSMDetails(getState(c))
  /\ toLowerCase(text) = "cancel"
  /\ store' = deleteState(c)
  /\ UNCHANGED <<timers, pure, pending>>
  /\ ev' = Event(c, text, "command", <<Reply("operation_cancelled")>>, <<>>)

\* _handleMessage -> _routeCommand, a text that starts no flow
routeOther(c, text) ==
  /\ ~awaitingTicketDetails(getState(c))
  /\ ~awaitingITSMDetails(getState(c))
  /\ toLowerCase(text) \notin {"cancel", "itsm create", "create request",
                               "jira create", "create ticket"}
  /\ store' = store
  /\ UNCHANGED <<timers, pure, pending>>
  /\ ev' = Event(c, text, "command", <<Reply("not_understood")>>, <<>>)

\* ------------------------------------------------------------------------
\* handleRequestFlow
\* ------------------------------------------------------------------------

\* cmd === 'cancel'
flowCancel(c, text) ==
  /\ ~awaitingTicketDetails(getState(c))
  /\ awaitingITSMDetails(getState(c))
  /\ toLowerCase(text) = "cancel"
  /\ store' = deleteState(c)
  /\ UNCHANGED <<timers, pure, pending>>
  /\ ev' = Event(c, text, "itsm", <<Reply("cancelled")>>, <<>>)

\* ------------------------------------------------------------------------
\* Selection steps
\* ------------------------------------------------------------------------

\* a message reaches the step handlers of handleRequestFlow
Dispatched(c, text, step) ==
  /\ ~awaitingTicketDetails(getState(c))
  /\ awaitingITSMDetails(getState(c))
  /\ toLowerCase(text) \notin {"cancel", "back"}
  /\ getState(c).step = step

IdsOf(types) == {types[i].id : i \in 1..Len(types)}

Outcome(ok) == IF ok THEN "ok" ELSE "error"

\* the calls of fetchFieldsAndForms: the field fetches, then the form fetches
fetchFieldsAndForms(types, fOk, gOk) ==
  [i \in 1..Len(types) |-> Call("getPortalFields", types[i].id, Outcome(fOk[types[i].id]))]
  \o [i \in 1..Len(types) |->
        Call("getRequestTypeForm", types[i].id, Outcome(gOk[types[i].id]))]

\* mutant of showRequestTypes: one failed fetch empties the results of all
\* the request types
showRequestTypesAllOrNothing(state, fOk, gOk) ==
  LET types == IF IsNullList(state.filteredRequestTypes) THEN <<>>
               ELSE state.filteredRequestTypes
      allOk == \A id \in IdsOf(types) : fOk[id] /\ gOk[id]
  IN IF Len(types) = 0 THEN state
     ELSE [state EXCEPT
             !.requestTypeFieldsCache =
                [id \in IdsOf(types) |-> IF allOk THEN UpPortalFields(id) ELSE <<>>],
             !.requestTypeFormsCache =
                [id \in IdsOf(types) |-> IF allOk THEN UpForm(id) ELSE NullV]]

\* showRequestTypes: the state after rendering; fOk[id] / gOk[id] tell whether
\* the field fetch / form fetch of request type id succeeded
showRequestTypes(state, fOk, gOk) ==
  LET types == IF IsNullList(state.filteredRequestTypes) THEN <<>>
               ELSE state.filteredRequestTypes
  IN IF Len(types) = 0 THEN state
     ELSE [state EXCEPT
             !.requestTypeFieldsCache =
                [id \in IdsOf(types) |-> IF fOk[id] THEN UpPortalFields(id) ELSE <<>>],
             !.requestTypeFormsCache =
                [id \in IdsOf(types) |-> IF gOk[id] THEN UpForm(id) ELSE NullV]]

showRequestTypesCalls(state, fOk, gOk) ==
  IF LengthOf(state.filteredRequestTypes) = 0 THEN <<>>
  ELSE fetchFieldsAndForms(state.filteredRequestTypes, fOk, gOk)

\* the outcomes of the fetches of one rendering: one per listed request type
FetchOutcomes(state) ==
  [IF LengthOf(state.filteredRequestTypes) = 0 THEN {}
   ELSE IdsOf(state.filteredRequestTypes) -> BOOLEAN]

\* mutant of handleServiceDesk: the selection is recorded before the fetches
handleServiceDeskRecordsFirst(c, text) ==
  /\ Dispatched(c, text, "select_service_desk")
  /\ LET state == getState(c)
         selected == selectFromList(text, state.serviceDesks, TRUE)
         calls(groupsOk, typesOk) ==
           <<Call("getPortalGroups", selected.id, Outcome(groupsOk)),
             Call("getRequestTypes", selected.id, Outcome(typesOk))>>
     IN IF IsNull(selected)
          THEN /\ store' = store
               /\ UNCHANGED <<timers, pure, pending>>
               /\ ev' = Event(c, text, "itsm", <<InvalidSelection(Len(state.serviceDesks))>>, <<>>)
          ELSE \E groupsOk \in BOOLEAN, typesOk \in BOOLEAN :
                 IF ~(groupsOk /\ typesOk)
                   THEN /\ store' = setState(c, [state EXCEPT !.selectedServiceDesk = selected])
                        /\ UNCHANGED <<timers, pure, pending>>
                        /\ ev' = Event(c, text, "itsm", <<Reply("error")>>,
                                       calls(groupsOk, typesOk))
                 ELSE IF Len(UpPortalGroups(selected.id)) = 0
                   THEN /\ store' = store
                        /\ UNCHANGED <<timers, pure, pending>>
                        /\ ev' = Event(c, text, "itsm", <<Reply("no_portal_groups")>>,
                                       calls(TRUE, TRUE))
                 ELSE /\ store' = setState(c,
                           [state EXCEPT !.selectedServiceDesk = selected,
                                         !.portalGroups = UpPortalGroups(selected.id),
                                         !.requestTypes = UpRequestTypes(selected.id),
                                         !.step = "select_portal_group"])
                      /\ UNCHANGED <<timers, pure, pending>>
                      /\ ev' = Event(c, text, "itsm", <<Reply("portal_groups")>>,
                                     calls(TRUE, TRUE))

\* handleServiceDesk
handleServiceDesk(c, text) ==
  /\ Dispatched(c, text, "select_service_desk")
  /\ LET state == getState(c)
         selected == selectFromList(text, state.serviceDesks, TRUE)
         calls(groupsOk, typesOk) ==
           <<Call("getPortalGroups", selected.id, Outcome(groupsOk)),
             Call("getRequestTypes", selected.id, Outcome(typesOk))>>
     IN IF IsNull(selected)
          THEN /\ store' = store
               /\ UNCHANGED <<timers, pure, pending>>
               /\ ev' = Event(c, text, "itsm", <<InvalidSelection(Len(state.serviceDesks))>>, <<>>)
          ELSE \E groupsOk \in BOOLEAN, typesOk \in BOOLEAN :
                 IF ~(groupsOk /\ typesOk)
                   THEN /\ store' = store
                        /\ UNCHANGED <<timers, pure, pending>>
                        /\ ev' = Event(c, text, "itsm", <<Reply("error")>>,
                                       calls(groupsOk, typesOk))
                 ELSE IF Len(UpPortalGroups(selected.id)) = 0
                   THEN /\ store' = store
                        /\ UNCHANGED <<timers, pure, pending>>
                        /\ ev' = Event(c, text, "itsm", <<Reply("no_portal_groups")>>,
                                       calls(TRUE, TRUE))
                 ELSE /\ store' = setState(c,
                           [state EXCEPT !.selectedServiceDesk = selected,
                                         !.portalGroups = UpPortalGroups(selected.id),
                                         !.requestTypes = UpRequestTypes(selected.id),
                                         !.step = "select_portal_group"])
                      /\ UNCHANGED <<timers, pure, pending>>
                      /\ ev' = Event(c, text, "itsm", <<Reply("portal_groups")>>,
                                     calls(TRUE, TRUE))

\* mutant of inGroup: only the string form of the group id is looked up
inGroupStringOnly(rt, groupId) ==
  /\ ~IsNullList(rt.groupIds)
  /\ \E i \in 1..Len(rt.groupIds) : rt.groupIds[i] = StrId(groupId.v)

\* rt.groupIds?.includes(id.toString()) || rt.groupIds?.includes(parseInt(id))
inGroup(rt, groupId) ==
  /\ ~IsNullList(rt.groupIds)
  /\ \E i \in 1..Len(rt.groupIds) :
       rt.groupIds[i] \in {StrId(groupId.v), IntId(groupId.v)}

\* handlePortalGroup
handlePortalGroup(c, text) ==
  /\ Dispatched(c, text, "select_portal_group")
  /\ LET state == getState(c)
         selected == selectFromList(text, state.portalGroups, FALSE)
     IN IF IsNull(selected)
          THEN /\ store' = store
               /\ UNCHANGED <<timers, pure, pending>>
               /\ ev' = Event(c, text, "itsm", <<InvalidSelection(Len(state.portalGroups))>>, <<>>)
          ELSE LET next == [state EXCEPT
                              !.selectedPortalGroup = selected,
                              !.filteredRequestTypes =
                                 SelectSeq(state.requestTypes,
                                           LAMBDA rt : inGroup(rt, selected.id)),
                              !.step = "select_request_type"]
               IN \E fOk \in FetchOutcomes(next), gOk \in FetchOutcomes(next) :
                    /\ store' = setState(c, showRequestTypes(next, fOk, gOk))
                    /\ UNCHANGED <<timers, pure, pending>>
                    /\ ev' = Event(c, text, "itsm", <<Reply("request_types")>>, showRequestTypesCalls(next, fOk, gOk))

\* the prompt of the field under the cursor (showField)
FieldPrompt(state) ==
  [Reply("field") EXCEPT !.n = state.fieldCollection.currentFieldIndex]

\* mutant of enterCollection: the step is collect_field whatever the field list
enterCollectionAlwaysCollects(state, selected, portalFields, formTemplate) ==
  [state EXCEPT
     !.selectedRequestType = selected,
     !.formTemplate = formTemplate,
     !.fieldCollection =
        [currentFieldIndex |-> 0,
         fields |-> prepareFieldsForCollection(portalFields,
                                               extractFormQuestions(formTemplate)),
         collectedValues |-> <<>>,
         formAnswers |-> <<>>,
         awaitingCustomValue |-> FALSE],
     !.step = "collect_field"]

\* handleRequestType, from the selection on: the state with the selection and
\* a fresh fieldCollection
enterCollection(state, selected, portalFields, formTemplate) ==
  LET allFields == prepareFieldsForCollection(portalFields,
                                              extractFormQuestions(formTemplate))
  IN [state EXCEPT
        !.selectedRequestType = selected,
        !.formTemplate = formTemplate,
        !.fieldCollection = [currentFieldIndex |-> 0,
                             fields |-> allFields,
                             collectedValues |-> <<>>,
                             formAnswers |-> <<>>,
                             awaitingCustomValue |-> FALSE],
        !.step = IF Len(allFields) = 0 THEN "confirm" ELSE "collect_field"]

\* mutant of handleRequestType: the caches are not consulted, the portal
\* fields and the form are fetched again at selection time
handleRequestTypeRefetches(c, text) ==
  /\ Dispatched(c, text, "select_request_type")
  /\ LET state == getState(c)
         types == IF IsNullList(state.filteredRequestTypes) THEN <<>>
                  ELSE state.filteredRequestTypes
         selected == selectFromList(text, types, FALSE)
         fieldsCached == FALSE
         formCached == FALSE
         calls(formOk) ==
           (IF fieldsCached THEN <<>> ELSE <<Call("getPortalFields", selected.id, "ok")>>)
           \o (IF formCached THEN <<>>
               ELSE <<Call("getRequestTypeForm", selected.id, Outcome(formOk))>>)
     IN IF IsNull(selected)
          THEN /\ store' = store
               /\ UNCHANGED <<timers, pure, pending>>
               /\ ev' = Event(c, text, "itsm", <<InvalidSelection(Len(types))>>, <<>>)
          ELSE \E fieldsOk \in (IF fieldsCached THEN {TRUE} ELSE BOOLEAN),
                  formOk \in (IF formCached THEN {TRUE} ELSE BOOLEAN) :
                 IF ~fieldsOk
                   THEN /\ store' = store
                        /\ UNCHANGED <<timers, pure, pending>>
                        /\ ev' = Event(c, text, "itsm", <<Reply("error")>>,
                                       <<Call("getPortalFields", selected.id, "error")>>)
                   ELSE LET portalFields ==
                              IF fieldsCached
                                THEN state.requestTypeFieldsCache[selected.id]
                                ELSE UpPortalFields(selected.id)
                            formTemplate ==
                              IF formCached THEN state.requestTypeFormsCache[selected.id]
                              ELSE IF formOk THEN UpForm(selected.id)
                              ELSE NullV
                            next == enterCollection(state, selected, portalFields,
                                                    formTemplate)
                        IN /\ store' = setState(c, next)
                           /\ UNCHANGED <<timers, pure, pending>>
                           /\ ev' = Event(c, text, "itsm", IF next.step = "confirm"
                                    THEN <<Reply("no_form_fields"), Reply("confirmation")>>
                                    ELSE <<Reply("form_overview"), FieldPrompt(next)>>,
                                  calls(formOk))

\* handleRequestType
handleRequestType(c, text) ==
  /\ Dispatched(c, text, "select_request_type")
  /\ LET state == getState(c)
         types == IF IsNullList(state.filteredRequestTypes) THEN <<>>
                  ELSE state.filteredRequestTypes
         selected == selectFromList(text, types, FALSE)
         fieldsCached == selected.id \in DOMAIN state.requestTypeFieldsCache
         formCached == selected.id \in DOMAIN state.requestTypeFormsCache
         calls(formOk) ==
           (IF fieldsCached THEN <<>> ELSE <<Call("getPortalFields", selected.id, "ok")>>)
           \o (IF formCached THEN <<>>
               ELSE <<Call("getRequestTypeForm", selected.id, Outcome(formOk))>>)
     IN IF IsNull(selected)
          THEN /\ store' = store
               /\ UNCHANGED <<timers, pure, pending>>
               /\ ev' = Event(c, text, "itsm", <<InvalidSelection(Len(types))>>, <<>>)
          ELSE \E fieldsOk \in (IF fieldsCached THEN {TRUE} ELSE BOOLEAN),
                  formOk \in (IF formCached THEN {TRUE} ELSE BOOLEAN) :
                 IF ~fieldsOk
                   THEN /\ store' = store
                        /\ UNCHANGED <<timers, pure, pending>>
                        /\ ev' = Event(c, text, "itsm", <<Reply("error")>>,
                                       <<Call("getPortalFields", selected.id, "error")>>)
                   ELSE LET portalFields ==
                              IF fieldsCached
                                THEN state.requestTypeFieldsCache[selected.id]
                                ELSE UpPortalFields(selected.id)
                            formTemplate ==
                              IF formCached THEN state.requestTypeFormsCache[selected.id]
                              ELSE IF formOk THEN UpForm(selected.id)
                              ELSE NullV
                            next == enterCollection(state, selected, portalFields,
                                                    formTemplate)
                        IN /\ store' = setState(c, next)
                           /\ UNCHANGED <<timers, pure, pending>>
                           /\ ev' = Event(c, text, "itsm", IF next.step = "confirm"
                                    THEN <<Reply("no_form_fields"), Reply("confirmation")>>
                                    ELSE <<Reply("form_overview"), FieldPrompt(next)>>,
                                  calls(formOk))

\* ------------------------------------------------------------------------
\* back
\* ------------------------------------------------------------------------

\* delete obj[key]
Delete(obj, key) == [k \in DOMAIN obj \ {key} |-> obj[k]]

\* a `back` that reaches goBack in the given step
BackIn(c, text, step) ==
  /\ ~awaitingTicketDetails(getState(c))
  /\ awaitingITSMDetails(getState(c))
  /\ toLowerCase(text) = "back"
  /\ ~awaitingCustomValue(getState(c))
  /\ getState(c).step = step

\* mutant of backCustomValue: the return is missing, goBack runs as well
backCustomValueFallsThrough(c, text) ==
  /\ ~awaitingTicketDetails(getState(c))
  /\ awaitingITSMDetails(getState(c))
  /\ toLowerCase(text) = "back"
  /\ awaitingCustomValue(getState(c))
  /\ LET state == getState(c)
         cleared == [state EXCEPT !.fieldCollection.awaitingCustomValue = FALSE]
         fc == cleared.fieldCollection
         next == IF fc.currentFieldIndex > 0
                   THEN [cleared EXCEPT
                           !.fieldCollection.currentFieldIndex = fc.currentFieldIndex - 1,
                           !.fieldCollection.collectedValues =
                              [k \in DOMAIN fc.collectedValues
                                      \ {fc.fields[fc.currentFieldIndex].fieldId}
                                 |-> fc.collectedValues[k]]]
                   ELSE cleared
     IN /\ store' = setState(c, next)
        /\ UNCHANGED <<timers, pure, pending>>
        /\ ev' = Event(c, text, "itsm",
                       <<[Reply("field") EXCEPT !.n = next.fieldCollection.currentFieldIndex]>>,
                       <<>>)

\* mutant of backCustomValue: the field is shown again with the flag still set
backCustomValueKeepsFlag(c, text) ==
  /\ ~awaitingTicketDetails(getState(c))
  /\ awaitingITSMDetails(getState(c))
  /\ toLowerCase(text) = "back"
  /\ awaitingCustomValue(getState(c))
  /\ store' = setState(c, getState(c))
  /\ UNCHANGED <<timers, pure, pending>>
  /\ ev' = Event(c, text, "itsm", <<FieldPrompt(getState(c))>>, <<>>)

\* handleRequestFlow, `back` while awaitingCustomValue
backCustomValue(c, text) ==
  /\ ~awaitingTicketDetails(getState(c))
  /\ awaitingITSMDetails(getState(c))
  /\ toLowerCase(text) = "back"
  /\ awaitingCustomValue(getState(c))
  /\ LET state == getState(c)
         next == [state EXCEPT !.fieldCollection.awaitingCustomValue = FALSE]
     IN /\ store' = setState(c, next)
        /\ UNCHANGED <<timers, pure, pending>>
        /\ ev' = Event(c, text, "itsm", <<FieldPrompt(next)>>, <<>>)

\* backMap['select_service_desk']
goBackServiceDesk(c, text) ==
  /\ BackIn(c, text, "select_service_desk")
  /\ store' = deleteState(c)
  /\ UNCHANGED <<timers, pure, pending>>
  /\ ev' = Event(c, text, "itsm", <<Reply("cancelled")>>, <<>>)

\* backMap['select_portal_group']
goBackPortalGroup(c, text) ==
  /\ BackIn(c, text, "select_portal_group")
  /\ store' = setState(c, [getState(c) EXCEPT !.step = "select_service_desk",
                                               !.selectedServiceDesk = NullV,
                                               !.portalGroups = NullList,
                                               !.requestTypes = NullList])
  /\ UNCHANGED <<timers, pure, pending>>
  /\ ev' = Event(c, text, "itsm", <<Reply("service_desks")>>, <<>>)

\* mutant of goBackRequestType: two steps back, to the service desks
goBackRequestTypeToDesk(c, text) ==
  /\ BackIn(c, text, "select_request_type")
  /\ store' = setState(c, [getState(c) EXCEPT !.step = "select_service_desk",
                                               !.selectedServiceDesk = NullV,
                                               !.portalGroups = NullList,
                                               !.requestTypes = NullList,
                                               !.selectedPortalGroup = NullV,
                                               !.filteredRequestTypes = NullList])
  /\ UNCHANGED <<timers, pure, pending>>
  /\ ev' = Event(c, text, "itsm", <<Reply("service_desks")>>, <<>>)

\* backMap['select_request_type']
goBackRequestType(c, text) ==
  /\ BackIn(c, text, "select_request_type")
  /\ store' = setState(c, [getState(c) EXCEPT !.step = "select_portal_group",
                                               !.selectedPortalGroup = NullV,
                                               !.filteredRequestTypes = NullList])
  /\ UNCHANGED <<timers, pure, pending>>
  /\ ev' = Event(c, text, "itsm", <<Reply("portal_groups")>>, <<>>)

\* mutant of backCollectField: from the first field, back to the categories
backCollectFieldToGroup(state) ==
  LET fc == state.fieldCollection
      idx == fc.currentFieldIndex - 1
  IN IF fc.currentFieldIndex > 0
       THEN [state EXCEPT
               !.fieldCollection.currentFieldIndex = idx,
               !.fieldCollection.collectedValues =
                  Delete(fc.collectedValues, fc.fields[idx + 1].fieldId)]
       ELSE [state EXCEPT !.step = "select_portal_group",
                          !.selectedPortalGroup = NullV,
                          !.filteredRequestTypes = NullList,
                          !.selectedRequestType = NullV,
                          !.fieldCollection = NullV]

\* mutant of backCollectField: the value is deleted but the cursor stays
backCollectFieldStays(state) ==
  LET fc == state.fieldCollection
      idx == fc.currentFieldIndex - 1
  IN IF fc.currentFieldIndex > 0
       THEN [state EXCEPT
               !.fieldCollection.collectedValues =
                  Delete(fc.collectedValues, fc.fields[idx + 1].fieldId)]
       ELSE [state EXCEPT !.step = "select_request_type",
                          !.selectedRequestType = NullV,
                          !.fieldCollection = NullV]

\* backMap['collect_field'], the state written
backCollectField(state) ==
  LET fc == state.fieldCollection
      idx == fc.currentFieldIndex - 1
  IN IF fc.currentFieldIndex > 0
       THEN [state EXCEPT
               !.fieldCollection.currentFieldIndex = idx,
               !.fieldCollection.collectedValues =
                  Delete(fc.collectedValues, fc.fields[idx + 1].fieldId)]
       ELSE [state EXCEPT !.step = "select_request_type",
                          !.selectedRequestType = NullV,
                          !.fieldCollection = NullV]

\* mutant of backConfirm: the step becomes collect_field also when the field
\* list is empty
backConfirmAlwaysCollects(state) ==
  LET fc == state.fieldCollection
      idx == Len(fc.fields) - 1
  IN IF ~IsNull(fc) /\ Len(fc.fields) > 0
       THEN [state EXCEPT
               !.step = "collect_field",
               !.fieldCollection.currentFieldIndex = idx,
               !.fieldCollection.collectedValues =
                  Delete(fc.collectedValues, fc.fields[idx + 1].fieldId)]
       ELSE [state EXCEPT !.step = "collect_field"]

\* backMap['confirm'], the state written
backConfirm(state) ==
  LET fc == state.fieldCollection
      idx == Len(fc.fields) - 1
  IN IF ~IsNull(fc) /\ Len(fc.fields) > 0
       THEN [state EXCEPT
               !.step = "collect_field",
               !.fieldCollection.currentFieldIndex = idx,
               !.fieldCollection.collectedValues =
                  Delete(fc.collectedValues, fc.fields[idx + 1].fieldId)]
       ELSE [state EXCEPT !.step = "select_request_type"]

\* a goBack branch that writes `next` and then shows the field or the
\* request types
ShowAfterBack(c, text, next) ==
  IF next.step = "collect_field"
    THEN /\ store' = setState(c, next)
         /\ UNCHANGED <<timers, pure, pending>>
         /\ ev' = Event(c, text, "itsm", <<FieldPrompt(next)>>, <<>>)
    ELSE \E fOk \in FetchOutcomes(next), gOk \in FetchOutcomes(next) :
           /\ store' = setState(c, showRequestTypes(next, fOk, gOk))
           /\ UNCHANGED <<timers, pure, pending>>
           /\ ev' = Event(c, text, "itsm", <<Reply("request_types")>>, showRequestTypesCalls(next, fOk, gOk))

goBackCollectField(c, text) ==
  /\ BackIn(c, text, "collect_field")
  /\ ShowAfterBack(c, text, backCollectField(getState(c)))

goBackConfirm(c, text) ==
  /\ BackIn(c, text, "confirm")
  /\ ShowAfterBack(c, text, backConfirm(getState(c)))

\* ------------------------------------------------------------------------
\* collect_field: Field Input Validator/Formatter
\* ------------------------------------------------------------------------

\* the first valid value whose name is the input, case-insensitive; NullV if none
matchByName(field, input) ==
  LET hits == {i \in 1..Len(field.validValues) :
                 toLowerCase(field.validValues[i].name) = toLowerCase(input)}
  IN IF hits = {} THEN NullV
     ELSE field.validValues[CHOOSE i \in hits : \A j \in hits : i <= j]

\* mutant of formatSelectValue: the number is taken as a 0-based index
formatSelectValueZeroBased(field, userInput) ==
  IF Len(field.validValues) = 0 THEN TextVal(userInput)
  ELSE IF ~IsNaN(userInput) /\ parseInt(userInput) >= 0
          /\ parseInt(userInput) < Len(field.validValues)
    THEN IdVal(field.validValues[parseInt(userInput) + 1].id)
  ELSE IF matchByName(field, userInput) # NullV
    THEN IdVal(matchByName(field, userInput).id)
  ELSE TextVal(userInput)

\* ITSMService._formatSelectValue
formatSelectValue(field, userInput) ==
  IF Len(field.validValues) = 0 THEN TextVal(userInput)
  ELSE IF ~IsNaN(userInput) /\ parseInt(userInput) - 1 >= 0
          /\ parseInt(userInput) - 1 < Len(field.validValues)
    THEN IdVal(field.validValues[parseInt(userInput)].id)
  ELSE IF matchByName(field, userInput) # NullV
    THEN IdVal(matchByName(field, userInput).id)
  ELSE TextVal(userInput)

\* mutant of formatMultiSelectValue: the loop stops after the first element
formatMultiSelectValueFirstOnly(field, userInput) ==
  IF Len(field.validValues) = 0 THEN [k |-> "list", ids |-> split(userInput)]
  ELSE LET input == split(userInput)[1]
       IN IdsVal(IF ~IsNaN(input) /\ parseInt(input) - 1 >= 0
                    /\ parseInt(input) - 1 < Len(field.validValues)
                   THEN <<field.validValues[parseInt(input)].id>>
                 ELSE IF matchByName(field, input) # NullV
                   THEN <<matchByName(field, input).id>>
                 ELSE <<>>)

\* ITSMService._formatMultiSelectValue: the ids of the elements that are an
\* index or a name; the other elements are dropped
formatMultiSelectValue(field, userInput) ==
  IF Len(field.validValues) = 0 THEN [k |-> "list", ids |-> split(userInput)]
  ELSE LET inputs == split(userInput)
           result(input) ==
             IF ~IsNaN(input) /\ parseInt(input) - 1 >= 0
                /\ parseInt(input) - 1 < Len(field.validValues)
               THEN <<field.validValues[parseInt(input)].id>>
             ELSE IF matchByName(field, input) # NullV
               THEN <<matchByName(field, input).id>>
             ELSE <<>>
       IN IdsVal(Flatten([i \in 1..Len(inputs) |-> result(inputs[i])]))

\* ITSMService.formatFieldValue, for the field types of the catalogue
formatFieldValue(field, userInput) ==
  CASE getFieldType(field) = "select" -> formatSelectValue(field, userInput)
    [] getFieldType(field) = "multiselect" -> formatMultiSelectValue(field, userInput)
    [] getFieldType(field) = "user" -> [k |-> "accountId", v |-> userInput]
    [] getFieldType(field) = "attachment" -> NullVal
    [] OTHER -> TextVal(userInput)

\* store a value for the field under the cursor: collectedValues for a portal
\* field, formAnswers for a form field
storeValue(fc, field, portalValue, formAnswer) ==
  IF field.source = "form"
    THEN [fc EXCEPT !.formAnswers =
            [q \in DOMAIN fc.formAnswers \cup {field.formQuestionId} |->
               IF q = field.formQuestionId THEN formAnswer ELSE fc.formAnswers[q]]]
    ELSE [fc EXCEPT !.collectedValues =
            [f \in DOMAIN fc.collectedValues \cup {field.fieldId} |->
               IF f = field.fieldId THEN portalValue ELSE fc.collectedValues[f]]]

\* advance the cursor; the step becomes confirm when the cursor reaches the end
advance(state, fc) ==
  LET moved == [fc EXCEPT !.currentFieldIndex = fc.currentFieldIndex + 1,
                          !.awaitingCustomValue = FALSE]
  IN [state EXCEPT !.fieldCollection = moved,
                   !.step = IF moved.currentFieldIndex = Len(fc.fields)
                              THEN "confirm" ELSE "collect_field"]

\* the outcome of one input on the field under the cursor:
\* [ok, state, reply]; ok = FALSE is a rejection that leaves the state alone
Rejected(state, kind, n) ==
  [ok |-> FALSE, state |-> state, reply |-> [Reply(kind) EXCEPT !.n = n]]

Stored(state, fc) ==
  LET next == advance(state, fc)
  IN [ok |-> TRUE, state |-> next,
      reply |-> IF next.step = "confirm" THEN Reply("confirmation") ELSE FieldPrompt(next)]

\* mutant of skipField: skip stores null whether the field is required or not
skipFieldAlwaysStores(state, field) ==
  Stored(state, storeValue(state.fieldCollection, field, NullVal, NullAns))

\* the input skip (validator, step 2)
skipField(state, field) ==
  IF field.required THEN Rejected(state, "required", 0)
  ELSE Stored(state, storeValue(state.fieldCollection, field, NullVal, NullAns))

\* every element of a comma-separated input is an index in 1..n
allIndices(text, n) ==
  \A i \in 1..Len(split(text)) :
    /\ ~IsNaN(split(text)[i])
    /\ parseInt(split(text)[i]) >= 1
    /\ parseInt(split(text)[i]) <= n

fieldInput(state, text) ==
  LET fc == state.fieldCollection
      field == fc.fields[fc.currentFieldIndex + 1]
      type == getFieldType(field)
      n == Len(field.validValues)
      i == parseInt(text)
  IN CASE fc.awaitingCustomValue ->
            IF text = "" /\ field.required THEN Rejected(state, "required", 0)
            ELSE Stored(state, storeValue(fc, field, TextVal(text), TextAns(text)))
       [] ~fc.awaitingCustomValue /\ toLowerCase(text) = "skip" ->
            skipField(state, field)
       [] OTHER ->
            IF type = "attachment"
              THEN Stored(state, storeValue(fc, field, NullVal, NullAns))
            ELSE IF type = "select" /\ n > 0
              THEN IF IsNaN(text) \/ i < 1 \/ i > n THEN Rejected(state, "invalid_choice", n)
                   ELSE IF field.validValues[i].id = "__other__"
                     THEN [ok |-> TRUE,
                           state |-> [state EXCEPT
                                        !.fieldCollection.awaitingCustomValue = TRUE],
                           reply |-> Reply("custom_value_prompt")]
                   ELSE Stored(state, storeValue(fc, field,
                                                 formatFieldValue(field, text),
                                                 ChoiceAns(field.validValues[i].id)))
            ELSE IF type = "multiselect" /\ n > 0
              THEN IF ~allIndices(text, n) THEN Rejected(state, "invalid_choice", n)
                   ELSE Stored(state, storeValue(fc, field,
                                                 formatFieldValue(field, text),
                                                 NullAns))
            ELSE IF text = "" /\ field.required THEN Rejected(state, "required", 0)
            ELSE Stored(state, storeValue(fc, field, formatFieldValue(field, text),
                                          TextAns(text)))

\* handleField
handleField(c, text) ==
  /\ Dispatched(c, text, "collect_field")
  /\ LET out == fieldInput(getState(c), text)
     IN /\ store' = IF out.ok THEN setState(c, out.state) ELSE store
        /\ UNCHANGED <<timers, pure, pending>>
        /\ ev' = Event(c, text, "itsm", <<out.reply>>, <<>>)

\* ------------------------------------------------------------------------
\* confirm: Submission Orchestrator
\* ------------------------------------------------------------------------

\* mutant of IsEmptyValue: null is taken for a value
IsEmptyValueNotNull(values, key) ==
  \/ key \notin DOMAIN values
  \/ values[key] = TextVal("")

\* value === null || value === undefined || value === ''
IsEmptyValue(values, key) ==
  \/ key \notin DOMAIN values
  \/ values[key] = NullVal
  \/ values[key] = TextVal("")

\* formAnswer?.text || formAnswer?.choices?.[0] is null, undefined or ''
IsEmptyAnswer(answers, key) ==
  \/ key \notin DOMAIN answers
  \/ answers[key] = NullAns
  \/ answers[key] = TextAns("")

\* the stored value of a field is missing
IsMissing(fc, field) ==
  IF field.source = "form"
    THEN IsEmptyAnswer(fc.formAnswers, field.formQuestionId)
    ELSE IsEmptyValue(fc.collectedValues, field.fieldId)

\* getMissingRequiredFields: the names of the required fields without a value
getMissingRequiredFields(fc) ==
  IF IsNull(fc) THEN <<>>
  ELSE LET missing == SelectSeq(fc.fields, LAMBDA f : f.required /\ IsMissing(fc, f))
       IN [i \in 1..Len(missing) |-> missing[i].name]

\* getCollectedFieldValues: collectedValues without null and '' entries
getCollectedFieldValues(fc) ==
  IF IsNull(fc) THEN <<>>
  ELSE [k \in {f \in DOMAIN fc.collectedValues : ~IsEmptyValue(fc.collectedValues, f)} |->
          fc.collectedValues[k]]

\* String(portalValue)
StringOf(value) == IF value.k = "text" THEN value.v ELSE "[object Object]"

\* mutant of buildFormAnswers: the null form answers are kept as well
buildFormAnswersKeepsNull(fc) ==
  LET linked == {i \in 1..Len(fc.fields) :
                   /\ fc.fields[i].source = "portal"
                   /\ fc.fields[i].formQuestionId # NullId
                   /\ ~IsEmptyValue(fc.collectedValues, fc.fields[i].fieldId)}
      fieldOf(q) == fc.fields[CHOOSE i \in linked : fc.fields[i].formQuestionId = q]
  IN [q \in DOMAIN fc.formAnswers \cup {fc.fields[i].formQuestionId : i \in linked} |->
        IF \E i \in linked : fc.fields[i].formQuestionId = q
          THEN TextAns(StringOf(fc.collectedValues[fieldOf(q).fieldId]))
          ELSE fc.formAnswers[q]]

\* buildFormAnswers: the non-null form answers, then a text answer for every
\* portal field with a form question and a non-empty value
buildFormAnswers(fc) ==
  LET kept == {q \in DOMAIN fc.formAnswers : fc.formAnswers[q] # NullAns}
      linked == {i \in 1..Len(fc.fields) :
                   /\ fc.fields[i].source = "portal"
                   /\ fc.fields[i].formQuestionId # NullId
                   /\ ~IsEmptyValue(fc.collectedValues, fc.fields[i].fieldId)}
      fieldOf(q) == fc.fields[CHOOSE i \in linked :
                                /\ fc.fields[i].formQuestionId = q
                                /\ \A j \in linked :
                                     fc.fields[j].formQuestionId = q => j <= i]
  IN [q \in kept \cup {fc.fields[i].formQuestionId : i \in linked} |->
        IF \E i \in linked : fc.fields[i].formQuestionId = q
          THEN TextAns(StringOf(fc.collectedValues[fieldOf(q).fieldId]))
          ELSE fc.formAnswers[q]]

\* state.formTemplate.id || .templateId || .formTemplate?.id, "" when none
formTemplateId(formTemplate) ==
  IF formTemplate.id # "" THEN formTemplate.id
  ELSE IF formTemplate.templateId # "" THEN formTemplate.templateId
  ELSE formTemplate.nestedId

FormOutcomes == {"attach_fail", "attach_no_id", "external_fail", "save_fail", "ok"}

\* what attachAndFillForm returns (the note added to the success message) and
\* the calls it made; thrown: an error left the function
FormResult(note, calls) == [note |-> note, calls |-> calls, thrown |-> FALSE]

FormThrown(calls) == [note |-> "", calls |-> calls, thrown |-> TRUE]

\* mutant of formSteps: the form is marked external and filled although
\* attachFormToIssue returned no form id
formStepsUngated(state, fc, outcome) ==
  LET id == formTemplateId(state.formTemplate)
      attach(result) == Call("attachFormToIssue", id, result)
      external(result) == Call("setFormExternal", "", result)
      answers == buildFormAnswers(fc)
      save(result) == Call("saveFormAnswers", answers, result)
  IN IF id = "" THEN FormResult("template_id_not_found", <<>>)
     ELSE IF outcome = "attach_fail"
       THEN FormThrown(<<attach("error")>>)
     ELSE IF outcome = "attach_no_id"
       THEN FormResult("form_attached", <<attach("no_id"), external("ok")>>)
     ELSE IF outcome = "external_fail"
       THEN FormThrown(<<attach("ok"), external("error")>>)
     ELSE IF DOMAIN answers = {}
       THEN FormResult("form_attached", <<attach("ok"), external("ok")>>)
     ELSE IF outcome = "save_fail"
       THEN FormThrown(<<attach("ok"), external("ok"), save("error")>>)
     ELSE FormResult("form_attached_and_filled",
                     <<attach("ok"), external("ok"), save("ok")>>)

\* attachAndFillForm, the body of its try block; outcome names the first
\* sub-step that fails
formSteps(state, fc, outcome) ==
  LET id == formTemplateId(state.formTemplate)
      attach(result) == Call("attachFormToIssue", id, result)
      external(result) == Call("setFormExternal", "", result)
      answers == buildFormAnswers(fc)
      save(result) == Call("saveFormAnswers", answers, result)
  IN IF id = "" THEN FormResult("template_id_not_found", <<>>)
     ELSE IF outcome = "attach_fail"
       THEN FormThrown(<<attach("error")>>)
     ELSE IF outcome = "attach_no_id"
       THEN FormResult("form_not_attached", <<attach("no_id")>>)
     ELSE IF outcome = "external_fail"
       THEN FormThrown(<<attach("ok"), external("error")>>)
     ELSE IF DOMAIN answers = {}
       THEN FormResult("form_attached", <<attach("ok"), external("ok")>>)
     ELSE IF outcome = "save_fail"
       THEN FormThrown(<<attach("ok"), external("ok"), save("error")>>)
     ELSE FormResult("form_attached_and_filled",
                     <<attach("ok"), external("ok"), save("ok")>>)

\* mutant of attachAndFillForm: no catch, the error of a sub-step propagates
attachAndFillFormNoCatch(state, fc, outcome) == formSteps(state, fc, outcome)

\* attachAndFillForm: the try block and its catch
attachAndFillForm(state, fc, outcome) ==
  LET r == formSteps(state, fc, outcome)
  IN IF r.thrown THEN FormResult("form_error", r.calls) ELSE r

\* mutant of getPortalUrl: the customer-portal path of getServiceDeskPortalUrl
getPortalUrlOfDesk(issueKey) ==
  [base |-> BaseUrl, path |-> "/servicedesk/customer/portal/", issueKey |-> issueKey]

\* ITSMService.getPortalUrl
getPortalUrl(issueKey) == [base |-> BaseUrl, path |-> "/browse/", issueKey |-> issueKey]

\* mutant of IsSubmit: the input is compared without toLowerCase
IsSubmitCaseSensitive(text) == text \in {"yes", "y", "retry"}

\* handleConfirm: cmd is yes, y or retry
IsSubmit(text) == toLowerCase(text) \in {"yes", "y", "retry"}

\* handleConfirm: cmd is no or n
IsDecline(text) == toLowerCase(text) \in {"no", "n"}

\* createRequest, missing required fields: the list is sent, nothing else
rejectMissing(c, text, missingRequired) ==
  /\ store' = store
  /\ UNCHANGED <<timers, pure, pending>>
  /\ ev' = Event(c, text, "itsm",
                 <<[Reply("missing_required") EXCEPT !.items = missingRequired]>>, <<>>)

\* createTypingAnimation: setInterval adds a running keep-alive timer
createTypingAnimation(running) == running + 1

\* typing.stop(): clearInterval removes it
stop(running) == running - 1

\* mutant of createFailed: the catch block does not stop the keep-alive timer
createFailedKeepsTyping(c, text, calls) ==
  /\ store' = store
  /\ timers' = createTypingAnimation(timers)
  /\ UNCHANGED <<pure, pending>>
  /\ ev' = Event(c, text, "itsm", <<Reply("create_failed")>>, calls)

\* mutant of createFailed: the state is dropped with the failed submission
createFailedDropsState(c, text, calls) ==
  /\ store' = deleteState(c)
  /\ timers' = stop(createTypingAnimation(timers))
  /\ UNCHANGED <<pure, pending>>
  /\ ev' = Event(c, text, "itsm", <<Reply("create_failed")>>, calls)

\* createRequest, the catch block: the error message is sent
createFailed(c, text, calls) ==
  /\ store' = store
  /\ timers' = stop(createTypingAnimation(timers))
  /\ UNCHANGED <<pure, pending>>
  /\ ev' = Event(c, text, "itsm", <<Reply("create_failed")>>, calls)

\* createRequest, after the create-request call returned issueKey: the form,
\* the success message, deleteState
createSucceeded(c, text, create, issueKey, outcome) ==
  LET state == getState(c)
      form == IF IsNull(state.formTemplate) THEN FormResult("", <<>>)
              ELSE attachAndFillForm(state, state.fieldCollection, outcome)
  IN IF form.thrown THEN createFailed(c, text, <<create>> \o form.calls)
     ELSE /\ store' = deleteState(c)
          /\ timers' = stop(createTypingAnimation(timers))
          /\ UNCHANGED <<pure, pending>>
          /\ ev' = Event(c, text, "itsm",
                         <<[Reply("created") EXCEPT !.key = issueKey,
                                                    !.url = getPortalUrl(issueKey),
                                                    !.note = form.note]>>,
                         <<create>> \o form.calls)

\* handleConfirm -> createRequest
createRequest(c, text) ==
  /\ Dispatched(c, text, "confirm")
  /\ IsSubmit(text)
  /\ LET state == getState(c)
         fc == state.fieldCollection
         missingRequired == getMissingRequiredFields(fc)
         create(result) ==
           Call("createRequest",
                [serviceDeskId |-> state.selectedServiceDesk.id,
                 requestTypeId |-> state.selectedRequestType.id,
                 requestFieldValues |-> getCollectedFieldValues(fc)],
                result)
     IN IF Len(missingRequired) > 0
          THEN rejectMissing(c, text, missingRequired)
          ELSE \/ createFailed(c, text, <<create("error")>>)
               \/ \E issueKey \in IssueKeys, outcome \in FormOutcomes :
                    createSucceeded(c, text, create(issueKey), issueKey, outcome)

\* handleConfirm, `no`
declineRequest(c, text) ==
  /\ Dispatched(c, text, "confirm")
  /\ IsDecline(text)
  /\ store' = deleteState(c)
  /\ UNCHANGED <<timers, pure, pending>>
  /\ ev' = Event(c, text, "itsm", <<Reply("cancelled")>>, <<>>)

\* handleConfirm, any other input
repromptConfirm(c, text) ==
  /\ Dispatched(c, text, "confirm")
  /\ ~IsSubmit(text)
  /\ ~IsDecline(text)
  /\ store' = store
  /\ UNCHANGED <<timers, pure, pending>>
  /\ ev' = Event(c, text, "itsm", <<Reply("confirm_reprompt")>>, <<>>)

\* ------------------------------------------------------------------------
\* Specification
\* ------------------------------------------------------------------------

Next ==
  \/ \E c \in DOMAIN store, text \in Texts : startRequestCreation(c, text)
  \/ \E c \in DOMAIN store, text \in Texts : routeCancel(c, text)
  \/ \E c \in DOMAIN store, text \in Texts : routeOther(c, text)
  \/ \E c \in DOMAIN store, text \in Texts : flowCancel(c, text)
  \/ \E c \in DOMAIN store, text \in Texts : handleServiceDesk(c, text)
  \/ \E c \in DOMAIN store, text \in Texts : handlePortalGroup(c, text)
  \/ \E c \in DOMAIN store, text \in Texts : handleRequestType(c, text)
  \/ \E c \in DOMAIN store, text \in Texts : handleField(c, text)
  \/ \E c \in DOMAIN store, text \in Texts : createRequest(c, text)
  \/ \E c \in DOMAIN store, text \in Texts : declineRequest(c, text)
  \/ \E c \in DOMAIN store, text \in Texts : repromptConfirm(c, text)
  \/ \E c \in DOMAIN store, text \in Texts : backCustomValue(c, text)
  \/ \E c \in DOMAIN store, text \in Texts : goBackServiceDesk(c, text)
  \/ \E c \in DOMAIN store, text \in Texts : goBackPortalGroup(c, text)
  \/ \E c \in DOMAIN store, text \in Texts : goBackRequestType(c, text)
  \/ \E c \in DOMAIN store, text \in Texts : goBackCollectField(c, text)
  \/ \E c \in DOMAIN store, text \in Texts : goBackConfirm(c, text)

Spec == Init /\ [][Next]_vars

\* ------------------------------------------------------------------------
\* Two conversations: the Map of state/conversation.mjs with two keys, each
\* message handled as a whole
\* ------------------------------------------------------------------------

TwoConvs == {"c1", "c2"}

\* what the user of the first conversation types
TextsA == {"create request", "1", "2", "back", "cancel", "yes", "no"}

\* what the user of the second conversation types
TextsB == {"create request", "1"}

TextsOf(c) == IF c = "c1" THEN TextsA ELSE TextsB

InitTwo ==
  /\ store = [c \in TwoConvs |-> NoState]
  /\ ev = [conv |-> "c1", text |-> "", route |-> "init", prev |-> "none",
           prevCustom |-> FALSE, prevIndex |-> -1, replies |-> <<>>, calls |-> <<>>]
  /\ timers = 0
  /\ pure = NoPure
  /\ pending = NoPending

NextTwo ==
  \/ \E c \in TwoConvs : \E text \in TextsOf(c) : startRequestCreation(c, text)
  \/ \E c \in TwoConvs : \E text \in TextsOf(c) : routeCancel(c, text)
  \/ \E c \in TwoConvs : \E text \in TextsOf(c) : routeOther(c, text)
  \/ \E c \in TwoConvs : \E text \in TextsOf(c) : flowCancel(c, text)
  \/ \E c \in TwoConvs : \E text \in TextsOf(c) : handleServiceDesk(c, text)
  \/ \E c \in TwoConvs : \E text \in TextsOf(c) : handlePortalGroup(c, text)
  \/ \E c \in TwoConvs : \E text \in TextsOf(c) : handleRequestType(c, text)
  \/ \E c \in TwoConvs : \E text \in TextsOf(c) : handleField(c, text)
  \/ \E c \in TwoConvs : \E text \in TextsOf(c) : createRequest(c, text)
  \/ \E c \in TwoConvs : \E text \in TextsOf(c) : declineRequest(c, text)
  \/ \E c \in TwoConvs : \E text \in TextsOf(c) : repromptConfirm(c, text)
  \/ \E c \in TwoConvs : \E text \in TextsOf(c) : backCustomValue(c, text)
  \/ \E c \in TwoConvs : \E text \in TextsOf(c) : goBackServiceDesk(c, text)
  \/ \E c \in TwoConvs : \E text \in TextsOf(c) : goBackPortalGroup(c, text)
  \/ \E c \in TwoConvs : \E text \in TextsOf(c) : goBackRequestType(c, text)
  \/ \E c \in TwoConvs : \E text \in TextsOf(c) : goBackCollectField(c, text)
  \/ \E c \in TwoConvs : \E text \in TextsOf(c) : goBackConfirm(c, text)

SpecTwo == InitTwo /\ [][NextTwo]_vars

\* ------------------------------------------------------------------------
\* Messages of one conversation handled concurrently: a handler is split at
\* its upstream await.  getState returns the object the Map holds, a handler
\* keeps that reference across the await; pending.heap are the state objects
\* built so far, pending.ref the object the Map holds per conversation (0:
\* none), pending.handlers the suspended handlers.  store is the Map seen
\* through the references.
\* ------------------------------------------------------------------------

RaceTexts == {"create request", "1", "cancel", "yes"}

\* the Map: conversation -> the object it refers to
MapView(p) ==
  [c \in DOMAIN p.ref |-> IF p.ref[c] = 0 THEN NoState ELSE p.heap[p.ref[c]]]

Remove(seq, i) == SubSeq(seq, 1, i - 1) \o SubSeq(seq, i + 1, Len(seq))

\* a handler suspended at an await, holding its state object
Handler(op, c, text, obj, selected) ==
  [op |-> op, conv |-> c, text |-> text, obj |-> obj, selected |-> selected]

\* startRequestCreation with the service desks fetched: a new state object
raceStartRequestCreation(c, text) ==
  /\ ~awaitingTicketDetails(getState(c))
  /\ ~awaitingITSMDetails(getState(c))
  /\ toLowerCase(text) \in {"itsm create", "create request"}
  /\ Len(pending.heap) < MaxObjects
  /\ pending' = [pending EXCEPT !.heap = Append(@, NewState(UpServiceDesks)),
                                !.deleted = Append(@, ""),
                                !.ref[c] = Len(pending.heap) + 1]
  /\ store' = MapView(pending')
  /\ UNCHANGED <<timers, pure>>
  /\ ev' = Event(c, text, "command", <<Reply("service_desks")>>,
                 <<Call("getServiceDesks", "", "ok")>>)

\* handleRequestFlow, cmd === 'cancel': deleteState before any await
raceCancel(c, text) ==
  /\ ~awaitingTicketDetails(getState(c))
  /\ awaitingITSMDetails(getState(c))
  /\ toLowerCase(text) = "cancel"
  /\ pending' = [pending EXCEPT !.ref[c] = 0,
                                !.deleted[pending.ref[c]] = "cancel"]
  /\ store' = MapView(pending')
  /\ UNCHANGED <<timers, pure>>
  /\ ev' = Event(c, text, "itsm", <<Reply("cancelled")>>, <<>>)

\* handleServiceDesk up to `await Promise.all(...)`
awaitServiceDesk(c, text) ==
  /\ Dispatched(c, text, "select_service_desk")
  /\ LET state == getState(c)
         selected == selectFromList(text, state.serviceDesks, TRUE)
     IN IF IsNull(selected)
          THEN /\ UNCHANGED <<store, timers, pure, pending>>
               /\ ev' = Event(c, text, "itsm", <<InvalidSelection(Len(state.serviceDesks))>>, <<>>)
          ELSE /\ Len(pending.handlers) < MaxPending
               /\ pending' = [pending EXCEPT !.handlers =
                                Append(@, Handler("handleServiceDesk", c, text,
                                                  pending.ref[c], selected))]
               /\ UNCHANGED <<store, timers, pure>>
               /\ ev' = Event(c, text, "itsm", <<>>,
                              <<Call("getPortalGroups", selected.id, "pending"),
                                Call("getRequestTypes", selected.id, "pending")>>)

\* mutant of resumeServiceDesk: the handler looks the state up again and
\* writes only if the Map still holds its object
resumeServiceDeskRereads(i) ==
  /\ i \in 1..Len(pending.handlers)
  /\ LET h == pending.handlers[i]
         state == pending.heap[h.obj]
         calls(groupsOk, typesOk) ==
           <<Call("getPortalGroups", h.selected.id, Outcome(groupsOk)),
             Call("getRequestTypes", h.selected.id, Outcome(typesOk))>>
     IN /\ h.op = "handleServiceDesk"
        /\ UNCHANGED <<timers, pure>>
        /\ \E groupsOk \in BOOLEAN, typesOk \in BOOLEAN :
             IF ~(groupsOk /\ typesOk)
               THEN /\ pending' = [pending EXCEPT !.handlers = Remove(@, i)]
                    /\ store' = store
                    /\ ev' = Event(h.conv, h.text, "resume", <<Reply("error")>>,
                                   calls(groupsOk, typesOk))
             ELSE IF pending.ref[h.conv] # h.obj
               THEN /\ pending' = [pending EXCEPT !.handlers = Remove(@, i)]
                    /\ store' = store
                    /\ ev' = Event(h.conv, h.text, "resume", <<Reply("portal_groups")>>,
                                   calls(TRUE, TRUE))
               ELSE /\ pending' = [pending EXCEPT
                         !.handlers = Remove(@, i),
                         !.heap[h.obj] =
                            [state EXCEPT !.selectedServiceDesk = h.selected,
                                          !.portalGroups = UpPortalGroups(h.selected.id),
                                          !.requestTypes = UpRequestTypes(h.selected.id),
                                          !.step = "select_portal_group"]]
                    /\ store' = MapView(pending')
                    /\ ev' = Event(h.conv, h.text, "resume", <<Reply("portal_groups")>>,
                                   calls(TRUE, TRUE))

\* handleServiceDesk after `await Promise.all(...)`: the captured state
\* object is changed and setState stores it under the conversation id
resumeServiceDesk(i) ==
  /\ i \in 1..Len(pending.handlers)
  /\ LET h == pending.handlers[i]
         state == pending.heap[h.obj]
         calls(groupsOk, typesOk) ==
           <<Call("getPortalGroups", h.selected.id, Outcome(groupsOk)),
             Call("getRequestTypes", h.selected.id, Outcome(typesOk))>>
     IN /\ h.op = "handleServiceDesk"
        /\ UNCHANGED <<timers, pure>>
        /\ \E groupsOk \in BOOLEAN, typesOk \in BOOLEAN :
             IF ~(groupsOk /\ typesOk)
               THEN /\ pending' = [pending EXCEPT !.handlers = Remove(@, i)]
                    /\ store' = store
                    /\ ev' = Event(h.conv, h.text, "resume", <<Reply("error")>>,
                                   calls(groupsOk, typesOk))
             ELSE IF Len(UpPortalGroups(h.selected.id)) = 0
               THEN /\ pending' = [pending EXCEPT !.handlers = Remove(@, i)]
                    /\ store' = store
                    /\ ev' = Event(h.conv, h.text, "resume", <<Reply("no_portal_groups")>>,
                                   calls(TRUE, TRUE))
             ELSE /\ pending' = [pending EXCEPT
                       !.handlers = Remove(@, i),
                       !.heap[h.obj] =
                          [state EXCEPT !.selectedServiceDesk = h.selected,
                                        !.portalGroups = UpPortalGroups(h.selected.id),
                                        !.requestTypes = UpRequestTypes(h.selected.id),
                                        !.step = "select_portal_group"],
                       !.ref[h.conv] = h.obj,
                       !.deleted[h.obj] = "",
                       !.resurrected = @ \/ (/\ pending.ref[h.conv] # h.obj
                                             /\ pending.deleted[h.obj] = "cancel")]
                  /\ store' = MapView(pending')
                  /\ ev' = Event(h.conv, h.text, "resume", <<Reply("portal_groups")>>,
                                 calls(TRUE, TRUE))

\* handlePortalGroup, with the fetches of showRequestTypes awaited in one go
racePortalGroup(c, text) ==
  /\ Dispatched(c, text, "select_portal_group")
  /\ UNCHANGED <<timers, pure>>
  /\ LET state == getState(c)
         selected == selectFromList(text, state.portalGroups, FALSE)
     IN IF IsNull(selected)
          THEN /\ UNCHANGED <<store, pending>>
               /\ ev' = Event(c, text, "itsm", <<InvalidSelection(Len(state.portalGroups))>>, <<>>)
          ELSE LET next == [state EXCEPT
                              !.selectedPortalGroup = selected,
                              !.filteredRequestTypes =
                                 SelectSeq(state.requestTypes,
                                           LAMBDA rt : inGroup(rt, selected.id)),
                              !.step = "select_request_type"]
               IN \E fOk \in FetchOutcomes(next), gOk \in FetchOutcomes(next) :
                    /\ pending' = [pending EXCEPT !.heap[pending.ref[c]] =
                                     showRequestTypes(next, fOk, gOk)]
                    /\ store' = MapView(pending')
                    /\ ev' = Event(c, text, "itsm", <<Reply("request_types")>>,
                                   showRequestTypesCalls(next, fOk, gOk))

\* handleRequestType for a request type rendered before (both caches hold
\* an entry for it), its awaits taken in one go
raceRequestType(c, text) ==
  /\ Dispatched(c, text, "select_request_type")
  /\ UNCHANGED <<timers, pure>>
  /\ LET state == getState(c)
         types == IF IsNullList(state.filteredRequestTypes) THEN <<>>
                  ELSE state.filteredRequestTypes
         selected == selectFromList(text, types, FALSE)
     IN IF IsNull(selected)
          THEN /\ UNCHANGED <<store, pending>>
               /\ ev' = Event(c, text, "itsm", <<InvalidSelection(Len(types))>>, <<>>)
          ELSE LET next == enterCollection(state, selected,
                                           state.requestTypeFieldsCache[selected.id],
                                           state.requestTypeFormsCache[selected.id])
               IN /\ pending' = [pending EXCEPT !.heap[pending.ref[c]] = next]
                  /\ store' = MapView(pending')
                  /\ ev' = Event(c, text, "itsm", IF next.step = "confirm"
                           THEN <<Reply("no_form_fields"), Reply("confirmation")>>
                           ELSE <<Reply("form_overview"), FieldPrompt(next)>>, <<>>)

\* handleConfirm -> createRequest up to `await bot.itsmService.createRequest`
awaitCreateRequest(c, text) ==
  /\ Dispatched(c, text, "confirm")
  /\ IsSubmit(text)
  /\ LET state == getState(c)
         fc == state.fieldCollection
         missingRequired == getMissingRequiredFields(fc)
     IN IF Len(missingRequired) > 0
          THEN /\ UNCHANGED <<store, timers, pure, pending>>
               /\ ev' = Event(c, text, "itsm",
                              <<[Reply("missing_required") EXCEPT !.items = missingRequired]>>, <<>>)
          ELSE /\ Len(pending.handlers) < MaxPending
               /\ pending' = [pending EXCEPT !.handlers =
                                Append(@, Handler("createRequest", c, text,
                                                  pending.ref[c], NullV))]
               /\ timers' = createTypingAnimation(timers)
               /\ UNCHANGED <<store, pure>>
               /\ ev' = Event(c, text, "itsm", <<>>,
                              <<Call("createRequest",
                                     [serviceDeskId |-> state.selectedServiceDesk.id,
                                      requestTypeId |-> state.selectedRequestType.id,
                                      requestFieldValues |-> getCollectedFieldValues(fc)],
                                     "pending")>>)

\* createRequest after the create-request call: the form steps, the message,
\* deleteState(conversationId); or the catch block
resumeCreateRequest(i) ==
  /\ i \in 1..Len(pending.handlers)
  /\ LET h == pending.handlers[i]
         state == pending.heap[h.obj]
     IN /\ h.op = "createRequest"
        /\ timers' = stop(timers)
        /\ UNCHANGED pure
        /\ \E result \in IssueKeys \cup {"error"}, outcome \in FormOutcomes :
             LET form == IF IsNull(state.formTemplate) THEN FormResult("", <<>>)
                         ELSE attachAndFillForm(state, state.fieldCollection, outcome)
                 create == Call("createRequest", state.selectedRequestType.id, result)
             IN IF result = "error" \/ form.thrown
                  THEN /\ pending' = [pending EXCEPT !.handlers = Remove(@, i)]
                       /\ store' = store
                       /\ ev' = Event(h.conv, h.text, "resume",
                                      <<Reply("create_failed")>>, <<create>> \o form.calls)
                  ELSE /\ pending' = [pending EXCEPT
                            !.handlers = Remove(@, i),
                            !.ref[h.conv] = 0,
                            !.deleted = [o \in DOMAIN @ |->
                                           IF o = pending.ref[h.conv] THEN "created"
                                           ELSE @[o]]]
                       /\ store' = MapView(pending')
                       /\ ev' = Event(h.conv, h.text, "resume",
                                      <<[Reply("created") EXCEPT !.key = result,
                                                                 !.url = getPortalUrl(result),
                                                                 !.note = form.note]>>,
                                      <<create>> \o form.calls)

NextRace ==
  \/ \E c \in DOMAIN store, text \in RaceTexts : raceStartRequestCreation(c, text)
  \/ \E c \in DOMAIN store, text \in RaceTexts : raceCancel(c, text)
  \/ \E c \in DOMAIN store, text \in RaceTexts : awaitServiceDesk(c, text)
  \/ \E i \in 1..MaxPending : resumeServiceDesk(i)
  \/ \E c \in DOMAIN store, text \in RaceTexts : racePortalGroup(c, text)
  \/ \E c \in DOMAIN store, text \in RaceTexts : raceRequestType(c, text)
  \/ \E c \in DOMAIN store, text \in RaceTexts : awaitCreateRequest(c, text)
  \/ \E i \in 1..MaxPending : resumeCreateRequest(i)

SpecRace == Init /\ [][NextRace]_vars

\* ------------------------------------------------------------------------
\* Field Reconciliation on its own: handleRequestType's lines from the
\* fetched portal fields and form template to the field list, over a
\* bounded set of upstream answers
\* ------------------------------------------------------------------------

\* portal fields the field endpoint may return
ReconPortalPool ==
  { PortalField("customfield_1", "Urgency", TRUE, "option", "",
                <<ValidValue("u1", "Low"), ValidValue("u2", "High")>>),
    PortalField("customfield_2", "Notes", FALSE, "string", "", <<>>),
    PortalField("customfield_4", "Impact ", FALSE, "string", "", <<>>),
    PortalField("attachment", "Attachment", TRUE, "array", "attachment", <<>>) }

\* the lists of at most MaxPortalFields portal fields, repetitions included
ReconPortalFields ==
  UNION {[1..n -> ReconPortalPool] : n \in 0..MaxPortalFields}

\* the questions of the form templates: q1 has the label of a portal field,
\* q2 and q3 share a label
ReconQuestions ==
  [q \in {"q1", "q2", "q3"} |->
     CASE q = "q1" -> Question("urgency", "cd", TRUE, <<>>)
       [] q = "q2" -> Question("Impact", "cd", FALSE,
                               <<Choice("c1", "High"), Choice("c9", "Other...")>>)
       [] OTHER -> Question("Impact", "ts", TRUE, <<>>)]

\* the section layouts of the form templates; the last two list a question twice
ReconSections ==
  { <<>>,
    << <<"q1", "q2">> >>,
    << <<"q2">>, <<"q1">> >>,
    << <<"q2", "q3">> >>,
    << <<"q1">>, <<"q3", "q2">> >>,
    << <<"q2">>, <<"q2">> >>,
    << <<"q3", "q1", "q3">> >> }

ReconTemplates ==
  {NullV} \cup
  { [id |-> "tpl", templateId |-> "", nestedId |-> "", sections |-> sec,
     keys |-> <<"q3", "q2", "q1">>, questions |-> ReconQuestions] : sec \in ReconSections }

InitRecon ==
  /\ store = [c \in Convs |-> NoState]
  /\ ev = [conv |-> "c1", text |-> "", route |-> "init", prev |-> "none",
           prevCustom |-> FALSE, prevIndex |-> -1, replies |-> <<>>, calls |-> <<>>]
  /\ timers = 0
  /\ pending = NoPending
  /\ \E portalFields \in ReconPortalFields, formTemplate \in ReconTemplates :
       pure = [op |-> "fetched", portalFields |-> portalFields,
               formTemplate |-> formTemplate]

\* handleRequestType, lines 239-243: extractFormQuestions, then
\* prepareFieldsForCollection
reconcile ==
  /\ pure.op = "fetched"
  /\ LET formQuestions == extractFormQuestions(pure.formTemplate)
     IN pure' = [op |-> "reconciled", portalFields |-> pure.portalFields,
                 formTemplate |-> pure.formTemplate,
                 formQuestions |-> formQuestions,
                 allFields |-> prepareFieldsForCollection(pure.portalFields,
                                                          formQuestions)]
  /\ UNCHANGED <<store, ev, timers, pending>>

NextRecon == reconcile

SpecRecon == InitRecon /\ [][NextRecon]_vars

\* ------------------------------------------------------------------------
\* Jira ticket flow (components/jira) next to the ITSM request flow: one
\* conversation, both entry commands in the alphabet
\* ------------------------------------------------------------------------

FlowTexts == {"jira create", "create request", "cancel", "1", "2", "yes", "no",
              "back", "skip"}

\* obj[key] = value
SetProp(obj, key, value) ==
  [k \in DOMAIN obj \cup {key} |-> IF k = key THEN value ELSE obj[k]]

\* the state object built by startTicketCreation
NewTicketState ==
  [awaitingTicketDetails |-> TRUE, ticketData |-> <<>>, step |-> "summary"]

\* typeMap[text.toLowerCase()] || 'Task'
typeMap(t) ==
  CASE t \in {"1", "task"} -> "Task"
    [] t \in {"2", "bug"} -> "Bug"
    [] t \in {"3", "story"} -> "Story"
    [] t \in {"4", "epic"} -> "Epic"
    [] OTHER -> "Task"

\* priorityMap[text.toLowerCase()] || 'Medium'
priorityMap(t) ==
  CASE t \in {"1", "highest"} -> "Highest"
    [] t \in {"2", "high"} -> "High"
    [] t \in {"3", "medium"} -> "Medium"
    [] t \in {"4", "low"} -> "Low"
    [] t \in {"5", "lowest"} -> "Lowest"
    [] OTHER -> "Medium"

\* mutant of startTicketCreation: the ticket flag and data are added to the
\* state the conversation has
startTicketCreationMerges(c, text) ==
  /\ ~awaitingTicketDetails(getState(c))
  /\ toLowerCase(text) \in {"jira create", "create ticket"}
  /\ \E configured \in BOOLEAN :
       IF ~configured
         THEN /\ store' = store
              /\ UNCHANGED <<timers, pure, pending>>
              /\ ev' = Event(c, text, "command", <<Reply("jira_not_configured")>>, <<>>)
         ELSE /\ store' = setState(c,
                   [k \in (DOMAIN getState(c) \ {"empty"}) \cup DOMAIN NewTicketState |->
                      IF k \in DOMAIN NewTicketState /\ k # "step" THEN NewTicketState[k]
                      ELSE IF k \in DOMAIN getState(c) THEN getState(c)[k]
                      ELSE NewTicketState[k]])
              /\ UNCHANGED <<timers, pure, pending>>
              /\ ev' = Event(c, text, "command", <<Reply("ticket_summary")>>, <<>>)

\* _handleMessage -> _routeCommand -> startTicketCreation
startTicketCreation(c, text) ==
  /\ ~awaitingTicketDetails(getState(c))
  /\ ~awaitingITSMDetails(getState(c))
  /\ toLowerCase(text) \in {"jira create", "create ticket"}
  /\ \E configured \in BOOLEAN :
       IF ~configured
         THEN /\ store' = store
              /\ UNCHANGED <<timers, pure, pending>>
              /\ ev' = Event(c, text, "command", <<Reply("jira_not_configured")>>, <<>>)
         ELSE /\ store' = setState(c, NewTicketState)
              /\ UNCHANGED <<timers, pure, pending>>
              /\ ev' = Event(c, text, "command", <<Reply("ticket_summary")>>, <<>>)

\* handleTicketFlow, `cancel`
ticketCancel(c, text) ==
  /\ awaitingTicketDetails(getState(c))
  /\ toLowerCase(text) = "cancel"
  /\ store' = deleteState(c)
  /\ UNCHANGED <<timers, pure, pending>>
  /\ ev' = Event(c, text, "jira", <<Reply("ticket_cancelled")>>, <<>>)

\* a message reaches the switch of handleTicketFlow in the given step
TicketIn(c, text, step) ==
  /\ awaitingTicketDetails(getState(c))
  /\ toLowerCase(text) # "cancel"
  /\ getState(c).step = step

\* the state written by a step of handleTicketFlow
TicketStep(c, text, ticketData, step, reply) ==
  /\ store' = setState(c, [getState(c) EXCEPT !.ticketData = ticketData,
                                               !.step = step])
  /\ UNCHANGED <<timers, pure, pending>>
  /\ ev' = Event(c, text, "jira", <<Reply(reply)>>, <<>>)

\* case 'summary'
ticketSummary(c, text) ==
  /\ TicketIn(c, text, "summary")
  /\ TicketStep(c, text, SetProp(getState(c).ticketData, "summary", text),
                "description", "ticket_description")

\* case 'description'
ticketDescription(c, text) ==
  /\ TicketIn(c, text, "description")
  /\ TicketStep(c, text,
                IF toLowerCase(text) # "skip"
                  THEN SetProp(getState(c).ticketData, "description", text)
                  ELSE getState(c).ticketData,
                "type", "ticket_type")

\* case 'type'
ticketType(c, text) ==
  /\ TicketIn(c, text, "type")
  /\ TicketStep(c, text,
                SetProp(getState(c).ticketData, "issueType",
                        IF toLowerCase(text) # "skip" THEN typeMap(toLowerCase(text))
                        ELSE "Task"),
                "priority", "ticket_priority")

\* case 'priority'
ticketPriority(c, text) ==
  /\ TicketIn(c, text, "priority")
  /\ TicketStep(c, text,
                SetProp(getState(c).ticketData, "priority",
                        IF toLowerCase(text) # "skip" THEN priorityMap(toLowerCase(text))
                        ELSE "Medium"),
                "confirm", "ticket_review")

\* case 'confirm': createTicket catches its own errors, the state is deleted
\* after it; no / n delete the state; anything else is asked again
ticketConfirm(c, text) ==
  /\ TicketIn(c, text, "confirm")
  /\ IF toLowerCase(text) \in {"yes", "y"}
       THEN \E outcome \in {"not_configured", "created", "failed"} :
              /\ store' = deleteState(c)
              /\ UNCHANGED <<timers, pure, pending>>
              /\ ev' = Event(c, text, "jira",
                             <<Reply(IF outcome = "not_configured" THEN "jira_not_available"
                                     ELSE IF outcome = "created" THEN "ticket_created"
                                     ELSE "ticket_failed")>>,
                             IF outcome = "not_configured" THEN <<>>
                             ELSE <<Call("createTicket", getState(c).ticketData,
                                         IF outcome = "created" THEN "ok" ELSE "error")>>)
     ELSE IF toLowerCase(text) \in {"no", "n"}
       THEN /\ store' = deleteState(c)
            /\ UNCHANGED <<timers, pure, pending>>
            /\ ev' = Event(c, text, "jira", <<Reply("ticket_cancelled")>>, <<>>)
     ELSE /\ store' = store
          /\ UNCHANGED <<timers, pure, pending>>
          /\ ev' = Event(c, text, "jira", <<Reply("ticket_confirm_again")>>, <<>>)

NextFlows ==
  \/ \E c \in Convs : \E text \in FlowTexts : startTicketCreation(c, text)
  \/ \E c \in Convs : \E text \in FlowTexts : ticketCancel(c, text)
  \/ \E c \in Convs : \E text \in FlowTexts : ticketSummary(c, text)
  \/ \E c \in Convs : \E text \in FlowTexts : ticketDescription(c, text)
  \/ \E c \in Convs : \E text \in FlowTexts : ticketType(c, text)
  \/ \E c \in Convs : \E text \in FlowTexts : ticketPriority(c, text)
  \/ \E c \in Convs : \E text \in FlowTexts : ticketConfirm(c, text)
  \/ \E c \in Convs : \E text \in FlowTexts : startRequestCreation(c, text)
  \/ \E c \in Convs : \E text \in FlowTexts : routeCancel(c, text)
  \/ \E c \in Convs : \E text \in FlowTexts : routeOther(c, text)
  \/ \E c \in Convs : \E text \in FlowTexts : flowCancel(c, text)
  \/ \E c \in Convs : \E text \in FlowTexts : handleServiceDesk(c, text)
  \/ \E c \in Convs : \E text \in FlowTexts : handlePortalGroup(c, text)
  \/ \E c \in Convs : \E text \in FlowTexts : handleRequestType(c, text)
  \/ \E c \in Convs : \E text \in FlowTexts : handleField(c, text)
  \/ \E c \in Convs : \E text \in FlowTexts : createRequest(c, text)
  \/ \E c \in Convs : \E text \in FlowTexts : declineRequest(c, text)
  \/ \E c \in Convs : \E text \in FlowTexts : repromptConfirm(c, text)
  \/ \E c \in Convs : \E text \in FlowTexts : backCustomValue(c, text)
  \/ \E c \in Convs : \E text \in FlowTexts : goBackServiceDesk(c, text)
  \/ \E c \in Convs : \E text \in FlowTexts : goBackPortalGroup(c, text)
  \/ \E c \in Convs : \E text \in FlowTexts : goBackRequestType(c, text)
  \/ \E c \in Convs : \E text \in FlowTexts : goBackCollectField(c, text)
  \/ \E c \in Convs : \E text \in FlowTexts : goBackConfirm(c, text)

SpecFlows == Init /\ [][NextFlows]_vars

\* ------------------------------------------------------------------------
\* ApiClient.request (common/services/ApiClient.mjs): the retry loop of one
\* request, one fetch attempt per step; pure holds the request
\* ------------------------------------------------------------------------

\* what one fetch attempt can end in: a response with a status, the abort of
\* the timeout, a rejection without response
HttpStatuses == {200, 204, 304, 400, 404, 408, 429, 500, 503}

Fetched(kind, status) == [kind |-> kind, status |-> status]

FetchResults ==
  {Fetched("response", st) : st \in HttpStatuses}
    \cup {Fetched("abort", 0), Fetched("rejected", 0)}

\* response.ok
ok(result) == result.kind = "response" /\ result.status \in 200..299

\* new ApiError({status, title}): name is always 'ApiError'
ApiError(status, title) == [name |-> "ApiError", status |-> status, title |-> title]

NoError == [name |-> "none", status |-> 0, title |-> ""]

\* ApiError.networkError
networkError == ApiError(0, "Network Error")

\* the error the catch block of request sees for a failed attempt:
\* ApiError.timeout for an abort, ApiError.fromResponse for a response that
\* is not ok, and _wrapError -> ApiError.networkError for anything else
errorOf(result) ==
  CASE result.kind = "abort" -> ApiError(408, "Request Timeout")
    [] result.kind = "response" -> ApiError(result.status, "Request Failed")
    [] OTHER -> networkError

\* ApiError.isServerError
isServerError(error) == error.status >= 500

\* mutant of isRetryable: every error is retryable
isRetryableAlways(error) == TRUE

\* ApiError.isRetryable
isRetryable(error) ==
  \/ isServerError(error)
  \/ error.status = 408
  \/ error.status = 429
  \/ error.name = "AbortError"

\* Math.pow(2, n)
Pow2(n) == IF n <= 0 THEN 1 ELSE IF n = 1 THEN 2 ELSE 4

InitApi ==
  /\ store = [c \in Convs |-> NoState]
  /\ ev = [conv |-> "c1", text |-> "", route |-> "init", prev |-> "none",
           prevCustom |-> FALSE, prevIndex |-> -1, replies |-> <<>>, calls |-> <<>>]
  /\ timers = 0
  /\ pending = NoPending
  /\ \E retries \in 0..MaxRetries, retryOnServerError \in BOOLEAN :
       pure = [op |-> "request", retries |-> retries,
               retryOnServerError |-> retryOnServerError,
               attempt |-> 0, fetches |-> <<>>, waited |-> 0,
               lastError |-> NoError, phase |-> "loop", data |-> ""]

\* one iteration of the for loop of request: the backoff delay, the fetch,
\* then return, throw or go on.  The last iteration (attempt = retries) never
\* goes on, so the throw after the loop is not reached for retries >= 0.
attempt(result) ==
  /\ pure.op = "request"
  /\ pure.phase = "loop"
  /\ pure.attempt <= pure.retries
  /\ LET waited == IF pure.attempt > 0 THEN pure.waited + Pow2(pure.attempt - 1)
                   ELSE pure.waited
         fetches == Append(pure.fetches, result)
         lastError == errorOf(result)
         shouldRetry == /\ pure.attempt < pure.retries
                        /\ \/ isRetryable(lastError)
                           \/ (pure.retryOnServerError /\ isServerError(lastError))
     IN IF ok(result)
          THEN pure' = [pure EXCEPT !.fetches = fetches, !.waited = waited,
                                    !.phase = "returned", !.data = "data"]
        ELSE IF ~shouldRetry
          THEN pure' = [pure EXCEPT !.fetches = fetches, !.waited = waited,
                                    !.lastError = lastError, !.phase = "thrown"]
        ELSE pure' = [pure EXCEPT !.fetches = fetches, !.waited = waited,
                                  !.lastError = lastError,
                                  !.attempt = pure.attempt + 1]
  /\ UNCHANGED <<store, ev, timers, pending>>

NextApi == \E result \in FetchResults : attempt(result)

SpecApi == InitApi /\ [][NextApi]_vars

\* ------------------------------------------------------------------------
\* Claims
\* ------------------------------------------------------------------------

LastReply(e) == e.replies[Len(e.replies)]

CallsOf(e, op) == SelectSeq(e.calls, LAMBDA k : k.op = op)

\* the message was handled by the ITSM flow in step `step`
HandledIn(e, step) == e.route = "itsm" /\ e.prev = step

\* a submission whose create-request call returned an issue key / failed
CreateOk(e) ==
  /\ HandledIn(e, "confirm")
  /\ IsSubmit(e.text)
  /\ \E i \in 1..Len(e.calls) :
       e.calls[i].op = "createRequest" /\ e.calls[i].result \in IssueKeys

CreateFailed(e) ==
  /\ HandledIn(e, "confirm")
  /\ IsSubmit(e.text)
  /\ \E i \in 1..Len(e.calls) :
       e.calls[i].op = "createRequest" /\ e.calls[i].result = "error"

\* C1: in every step of an open ITSM flow (also while awaitingCustomValue)
\* the input cancel, in any case, deletes the state of the conversation and
\* calls nothing upstream; a message of a conversation without state goes to
\* command dispatch, and the only state dispatch creates is the one of
\* `create request` (or its synonym `itsm create`): step select_service_desk, the service-desk list, no
\* selection, no cached list, no fieldCollection.
C1_CancelDeletesState ==
  [][\A c \in DOMAIN store :
       /\ (awaitingITSMDetails(store[c]) /\ ev'.conv = c
             /\ ev'.text \in {"cancel", "CANCEL"})
            => (store'[c] = NoState /\ ev'.calls = <<>>)
       /\ (store[c] = NoState /\ ev'.conv = c) => ev'.route = "command"
       /\ (store[c] = NoState /\ ev'.conv = c /\ store'[c] # NoState)
            => /\ ev'.text \in {"create request", "itsm create"}
               /\ store'[c].step = "select_service_desk"
               /\ store'[c].serviceDesks = UpServiceDesks
               /\ store'[c].selectedServiceDesk = NullV
               /\ store'[c].selectedPortalGroup = NullV
               /\ store'[c].selectedRequestType = NullV
               /\ store'[c].portalGroups = NullList
               /\ store'[c].requestTypes = NullList
               /\ store'[c].filteredRequestTypes = NullList
               /\ store'[c].formTemplate = NullV
               /\ store'[c].fieldCollection = NullV
               /\ store'[c].requestTypeFieldsCache = <<>>
               /\ store'[c].requestTypeFormsCache = <<>>]_vars

\* C1 witness: CANCEL typed while a custom value was awaited in collect_field
C1_Witness ==
  /\ HandledIn(ev, "collect_field")
  /\ ev.prevCustom
  /\ ev.text = "CANCEL"
  /\ store[ev.conv] = NoState

\* C2: a yes / y / retry in confirm whose create-request call returns an
\* issue key sends one reply, the success message with that key and the
\* portal URL of that key, and leaves no stored state.
C2_SuccessReplyAndDelete ==
  CreateOk(ev) =>
    /\ Len(ev.replies) = 1
    /\ LastReply(ev).kind = "created"
    /\ LastReply(ev).key = CallsOf(ev, "createRequest")[1].result
    /\ LastReply(ev).url = [base |-> BaseUrl, path |-> "/browse/",
                            issueKey |-> LastReply(ev).key]
    /\ store[ev.conv] = NoState

\* C2 witness: desk #1, group #1, request type #1 (no fields), yes
C2_Witness ==
  /\ CreateOk(ev)
  /\ ev.text = "yes"
  /\ CallsOf(ev, "createRequest")[1].arg.serviceDeskId = "d1"
  /\ CallsOf(ev, "createRequest")[1].arg.requestTypeId = "rt1"
  /\ CallsOf(ev, "createRequest")[1].arg.requestFieldValues = <<>>
  /\ LastReply(ev).kind = "created"
  /\ LastReply(ev).key \in IssueKeys
  /\ store[ev.conv] = NoState

\* C3: a failed create-request call sends the error message and leaves the
\* whole stored state as it was (step confirm, selections, fields, values);
\* the next yes / y / retry of the conversation calls create-request again and
\* the next back leaves confirm for the last field (for the request-type list
\* when there is no field).
C3_FailedSubmitKeepsState ==
  [][/\ CreateFailed(ev') =>
          /\ store' = store
          /\ ev'.replies = <<Reply("create_failed")>>
          /\ Len(ev'.calls) = 1
     /\ (CreateFailed(ev) /\ ev'.conv = ev.conv /\ IsSubmit(ev'.text))
          => Len(CallsOf(ev', "createRequest")) = 1
     /\ (CreateFailed(ev) /\ ev'.conv = ev.conv /\ ev'.text = "back")
          => LET fc == store[ev.conv].fieldCollection
             IN IF Len(fc.fields) > 0
                  THEN /\ store'[ev.conv].step = "collect_field"
                       /\ store'[ev.conv].fieldCollection.currentFieldIndex
                            = Len(fc.fields) - 1
                  ELSE store'[ev.conv].step = "select_request_type"]_vars

\* C3 witness: a retry failed again on a request with collected values
C3_Witness ==
  /\ CreateFailed(ev)
  /\ ev.text = "retry"
  /\ store[ev.conv].step = "confirm"
  /\ Len(store[ev.conv].fieldCollection.fields) = 2
  /\ ~IsEmptyValue(store[ev.conv].fieldCollection.collectedValues, "customfield_1")

\* a field has a non-empty stored value: collectedValues[fieldId] of a portal
\* field, the text or first choice of formAnswers[formQuestionId] of a form field
HasStoredValue(fc, f) ==
  IF f.source = "form"
    THEN /\ f.formQuestionId \in DOMAIN fc.formAnswers
         /\ fc.formAnswers[f.formQuestionId].k \in {"text", "choices"}
         /\ fc.formAnswers[f.formQuestionId].v # ""
    ELSE /\ f.fieldId \in DOMAIN fc.collectedValues
         /\ fc.collectedValues[f.fieldId].k # "null"
         /\ fc.collectedValues[f.fieldId].k # "ids"
              => fc.collectedValues[f.fieldId].v # ""

RequiredWithoutValue(fc) ==
  SelectSeq(fc.fields, LAMBDA f : f.required /\ ~HasStoredValue(fc, f))

\* C4: a yes / y / retry in confirm while a required field has no non-empty
\* stored value calls nothing upstream, sends one reply listing exactly the
\* names of those fields, and leaves the stored state as it was.
C4_MissingRequiredBlocksSubmit ==
  [][\A c \in DOMAIN store :
       (/\ ev'.conv = c
        /\ StepOf(store[c]) = "confirm"
        /\ IsSubmit(ev'.text)
        /\ Len(RequiredWithoutValue(store[c].fieldCollection)) > 0)
       => /\ ev'.calls = <<>>
          /\ Len(ev'.replies) = 1
          /\ ev'.replies[1].kind = "missing_required"
          /\ ev'.replies[1].items =
               [i \in 1..Len(RequiredWithoutValue(store[c].fieldCollection)) |->
                  RequiredWithoutValue(store[c].fieldCollection)[i].name]
          /\ store' = store]_vars

\* C4 witness: yes on a request whose required attachment was never collected
C4_Witness ==
  /\ HandledIn(ev, "confirm")
  /\ ev.text = "yes"
  /\ LastReply(ev).kind = "missing_required"
  /\ LastReply(ev).items = <<Name("Attachment", 0)>>
  /\ store[ev.conv].step = "confirm"

FormOps == {"attachFormToIssue", "setFormExternal", "saveFormAnswers"}

FormStepFailed(e) ==
  \E i \in 1..Len(e.calls) :
    e.calls[i].op \in FormOps /\ e.calls[i].result \in {"error", "no_id"}

\* C5: when the create-request call succeeded for a request type with a form
\* template and a form sub-step failed (no template id, attach, mark external,
\* save), the success message with the issue key is still the reply, it
\* carries a note about the form, the state is deleted and exactly one
\* create-request call was made.
C5_FormFailureKeepsSuccess ==
  [][\A c \in DOMAIN store :
       (/\ ev'.conv = c
        /\ CreateOk(ev')
        /\ store[c].formTemplate # NullV
        /\ (FormStepFailed(ev') \/ (/\ store[c].formTemplate.id = ""
                                     /\ store[c].formTemplate.templateId = ""
                                     /\ store[c].formTemplate.nestedId = "")))
       => /\ Len(ev'.replies) = 1
          /\ ev'.replies[1].kind = "created"
          /\ ev'.replies[1].key = CallsOf(ev', "createRequest")[1].result
          /\ ev'.replies[1].note \in {"form_error", "form_not_attached",
                                      "template_id_not_found"}
          /\ store'[c] = NoState
          /\ Len(CallsOf(ev', "createRequest")) = 1]_vars

\* C5 witness: saving the answers failed after the form was attached
C5_Witness ==
  /\ CreateOk(ev)
  /\ \E i \in 1..Len(ev.calls) :
       ev.calls[i].op = "saveFormAnswers" /\ ev.calls[i].result = "error"
  /\ LastReply(ev).kind = "created"
  /\ LastReply(ev).note = "form_error"
  /\ store[ev.conv] = NoState

\* C6: wherever a fieldCollection exists, 0 <= currentFieldIndex <=
\* fields.length, and the cursor equals fields.length exactly when the step
\* is confirm.
C6_CursorAtEndIffConfirm ==
  \A c \in DOMAIN store :
    (store[c] # NoState /\ store[c].fieldCollection # NullV)
    => LET fc == store[c].fieldCollection
       IN /\ 0 <= fc.currentFieldIndex
          /\ fc.currentFieldIndex <= Len(fc.fields)
          /\ (fc.currentFieldIndex = Len(fc.fields)) <=> (store[c].step = "confirm")

SelectionSteps == {"select_service_desk", "select_portal_group", "select_request_type"}

\* the list displayed in a selection step
DisplayedList(state) ==
  CASE state.step = "select_service_desk" -> state.serviceDesks
    [] state.step = "select_portal_group" -> state.portalGroups
    [] OTHER -> IF state.filteredRequestTypes = NullList THEN <<>>
                ELSE state.filteredRequestTypes

\* C7: in the three selection steps a numeric input that is 0 or greater than
\* the length N of the displayed list gets the one reply "Enter 1-N", makes no
\* upstream call and leaves the whole stored state as it was.
C7_OutOfRangeRejected ==
  [][\A c \in DOMAIN store :
       (/\ ev'.conv = c
        /\ StepOf(store[c]) \in SelectionSteps
        /\ ev'.text \in NumTexts
        /\ \/ parseInt(ev'.text) = 0
           \/ parseInt(ev'.text) > Len(DisplayedList(store[c])))
       => /\ Len(ev'.replies) = 1
          /\ ev'.replies[1].kind = "invalid_selection"
          /\ ev'.replies[1].n = Len(DisplayedList(store[c]))
          /\ ev'.calls = <<>>
          /\ store' = store]_vars

\* C7 witness: "3" against a list of two request types
C7_Witness ==
  /\ HandledIn(ev, "select_request_type")
  /\ ev.text = "3"
  /\ LastReply(ev).kind = "invalid_selection"
  /\ LastReply(ev).n = 2
  /\ store[ev.conv].step = "select_request_type"
  /\ Len(store[ev.conv].filteredRequestTypes) = 2

\* C8: the message that selects a request type leaves the conversation in
\* confirm when the reconciled field list is empty (no portal field, no form
\* question) and otherwise in collect_field, in both cases with the cursor at
\* 0 and empty collectedValues and formAnswers.
C8_EmptyFieldListGoesToConfirm ==
  \A c \in DOMAIN store :
    (/\ ev.conv = c
     /\ HandledIn(ev, "select_request_type")
     /\ StepOf(store[c]) \in {"collect_field", "confirm"})
    => LET state == store[c]
           fc == state.fieldCollection
           id == state.selectedRequestType.id
           portalFields == state.requestTypeFieldsCache[id]
           questions == extractFormQuestions(state.requestTypeFormsCache[id])
       IN /\ fc.currentFieldIndex = 0
          /\ fc.collectedValues = <<>>
          /\ fc.formAnswers = <<>>
          /\ (Len(fc.fields) = 0) <=> (Len(portalFields) = 0 /\ Len(questions) = 0)
          /\ (state.step = "confirm") <=> (Len(fc.fields) = 0)

\* C8 witness: a request type without fields was selected
C8_Witness ==
  /\ HandledIn(ev, "select_request_type")
  /\ ev.text = "1"
  /\ store[ev.conv].step = "confirm"
  /\ store[ev.conv].fieldCollection.fields = <<>>
  /\ ev.replies = <<Reply("no_form_fields"), Reply("confirmation")>>

\* C9: back on the first field (no custom value awaited) moves to
\* select_request_type, clears selectedRequestType and fieldCollection and
\* keeps the service desk, the category and the lists.
C9_BackFromFirstField ==
  [][\A c \in DOMAIN store :
       (/\ ev'.conv = c
        /\ StepOf(store[c]) = "collect_field"
        /\ ev'.text = "back"
        /\ ~awaitingCustomValue(store[c])
        /\ CursorOf(store[c]) = 0)
       => /\ store'[c].step = "select_request_type"
          /\ store'[c].selectedRequestType = NullV
          /\ store'[c].fieldCollection = NullV
          /\ store'[c].selectedServiceDesk = store[c].selectedServiceDesk
          /\ store'[c].selectedPortalGroup = store[c].selectedPortalGroup
          /\ store'[c].filteredRequestTypes = store[c].filteredRequestTypes
          /\ store'[c].serviceDesks = store[c].serviceDesks
          /\ store'[c].portalGroups = store[c].portalGroups
          /\ store'[c].requestTypes = store[c].requestTypes]_vars

\* C9 witness: back was typed on the first field
C9_Witness ==
  /\ HandledIn(ev, "collect_field")
  /\ ev.text = "back"
  /\ ev.prevIndex = 0
  /\ ~ev.prevCustom
  /\ store[ev.conv].step = "select_request_type"
  /\ store[ev.conv].selectedPortalGroup # NullV

\* C10: back on a later field (no custom value awaited) lowers the cursor by
\* one, stays in collect_field and leaves no stored value for the field at the
\* new cursor (no collectedValues entry of a portal field, no formAnswers
\* entry of a form field); the values of the fields before it are unchanged.
C10_BackClearsFieldAtCursor ==
  [][\A c \in DOMAIN store :
       (/\ ev'.conv = c
        /\ StepOf(store[c]) = "collect_field"
        /\ ev'.text = "back"
        /\ ~awaitingCustomValue(store[c])
        /\ CursorOf(store[c]) > 0)
       => LET old == store[c].fieldCollection
              new == store'[c].fieldCollection
              field == old.fields[old.currentFieldIndex]
          IN /\ store'[c].step = "collect_field"
             /\ new.currentFieldIndex = old.currentFieldIndex - 1
             /\ field.source = "portal" => field.fieldId \notin DOMAIN new.collectedValues
             /\ field.source = "form" => field.formQuestionId \notin DOMAIN new.formAnswers
             /\ \A i \in 1..(old.currentFieldIndex - 1) :
                  LET f == old.fields[i]
                  IN IF f.source = "form"
                       THEN /\ (f.formQuestionId \in DOMAIN new.formAnswers)
                                 <=> (f.formQuestionId \in DOMAIN old.formAnswers)
                            /\ f.formQuestionId \in DOMAIN old.formAnswers
                                 => new.formAnswers[f.formQuestionId]
                                      = old.formAnswers[f.formQuestionId]
                       ELSE /\ (f.fieldId \in DOMAIN new.collectedValues)
                                 <=> (f.fieldId \in DOMAIN old.collectedValues)
                            /\ f.fieldId \in DOMAIN old.collectedValues
                                 => new.collectedValues[f.fieldId]
                                      = old.collectedValues[f.fieldId]]_vars

\* C11: after back in confirm, a non-empty field list leaves the conversation
\* in collect_field on the last field with no stored value for that field
\* (portal or form); an empty field list leaves it in select_request_type.
C11_BackFromConfirm ==
  \A c \in DOMAIN store :
    (ev.conv = c /\ HandledIn(ev, "confirm") /\ ev.text = "back")
    => LET state == store[c]
           fc == state.fieldCollection
       IN IF Len(fc.fields) > 0
            THEN /\ state.step = "collect_field"
                 /\ fc.currentFieldIndex = Len(fc.fields) - 1
                 /\ ~HasStoredValue(fc, fc.fields[Len(fc.fields)])
            ELSE state.step = "select_request_type"

\* C12: back while a custom value is awaited only clears awaitingCustomValue:
\* step, cursor, collectedValues and formAnswers stay and the prompt of the
\* current field is sent again, without an upstream call.
C12_BackClearsOnlyCustomFlag ==
  [][\A c \in DOMAIN store :
       (ev'.conv = c /\ awaitingCustomValue(store[c]) /\ ev'.text = "back")
       => /\ store'[c].step = "collect_field"
          /\ store[c].step = "collect_field"
          /\ ~store'[c].fieldCollection.awaitingCustomValue
          /\ store'[c] = [store[c] EXCEPT !.fieldCollection.awaitingCustomValue = FALSE]
          /\ Len(ev'.replies) = 1
          /\ ev'.replies[1].kind = "field"
          /\ ev'.replies[1].n = store[c].fieldCollection.currentFieldIndex
          /\ ev'.calls = <<>>]_vars

\* C12 witness: back typed after Other was chosen on the second field
C12_Witness ==
  /\ HandledIn(ev, "collect_field")
  /\ ev.prevCustom
  /\ ev.prevIndex = 1
  /\ ev.text = "back"
  /\ store[ev.conv].step = "collect_field"
  /\ store[ev.conv].fieldCollection.currentFieldIndex = 1
  /\ ~store[ev.conv].fieldCollection.awaitingCustomValue
  /\ store[ev.conv].fieldCollection.collectedValues # <<>>

\* C13: back in a selection step goes one step back: from select_request_type
\* to select_portal_group clearing selectedPortalGroup and
\* filteredRequestTypes; from select_portal_group to select_service_desk
\* clearing selectedServiceDesk, portalGroups and requestTypes and keeping
\* serviceDesks; in select_service_desk it deletes the state.
C13_BackInSelectionSteps ==
  [][\A c \in DOMAIN store :
       (ev'.conv = c /\ ev'.text = "back")
       => /\ StepOf(store[c]) = "select_request_type"
               => /\ store'[c].step = "select_portal_group"
                  /\ store'[c].selectedPortalGroup = NullV
                  /\ store'[c].filteredRequestTypes = NullList
                  /\ store'[c].selectedServiceDesk = store[c].selectedServiceDesk
                  /\ store'[c].portalGroups = store[c].portalGroups
                  /\ store'[c].requestTypes = store[c].requestTypes
                  /\ store'[c].serviceDesks = store[c].serviceDesks
          /\ StepOf(store[c]) = "select_portal_group"
               => /\ store'[c].step = "select_service_desk"
                  /\ store'[c].selectedServiceDesk = NullV
                  /\ store'[c].portalGroups = NullList
                  /\ store'[c].requestTypes = NullList
                  /\ store'[c].serviceDesks = store[c].serviceDesks
          /\ StepOf(store[c]) = "select_service_desk"
               => store'[c] = NoState]_vars

\* C13 witness: back from the request types of a category
C13_Witness ==
  /\ HandledIn(ev, "select_request_type")
  /\ ev.text = "back"
  /\ store[ev.conv].step = "select_portal_group"
  /\ store[ev.conv].selectedPortalGroup = NullV
  /\ store[ev.conv].selectedServiceDesk # NullV
  /\ store[ev.conv].portalGroups # NullList
  /\ Len(store[ev.conv].portalGroups) > 1

SubmitWords == {"yes", "YES", "y", "retry"}

DeclineWords == {"no", "n"}

SubmissionReplies == {"created", "create_failed", "missing_required"}

\* C14: in confirm, yes / y / retry in any case start a submission and
\* nothing else does; no / n delete the state and, the successful submission,
\* back and cancel apart, nothing else changes the state; every other
\* input except back and cancel gets the re-prompt, leaves the state as it
\* was and calls nothing upstream.
C14_ConfirmInputs ==
  [][\A c \in DOMAIN store :
       (ev'.conv = c /\ StepOf(store[c]) = "confirm")
       => /\ (ev'.text \in SubmitWords)
               <=> (Len(ev'.replies) = 1 /\ ev'.replies[1].kind \in SubmissionReplies)
          /\ Len(CallsOf(ev', "createRequest")) > 0 => ev'.text \in SubmitWords
          /\ ev'.text \in DeclineWords => store'[c] = NoState
          /\ store'[c] = NoState
               => ev'.text \in DeclineWords \cup SubmitWords \cup {"cancel", "CANCEL"}
          /\ ev'.text \notin SubmitWords \cup DeclineWords \cup {"back", "cancel", "CANCEL"}
               => /\ ev'.replies = <<Reply("confirm_reprompt")>>
                  /\ ev'.calls = <<>>
                  /\ store' = store]_vars

\* C14 witness: skip typed in confirm is answered with the re-prompt
C14_Witness ==
  /\ HandledIn(ev, "confirm")
  /\ ev.text = "skip"
  /\ ev.replies = <<Reply("confirm_reprompt")>>
  /\ store[ev.conv].step = "confirm"

\* C15: between two messages no typing keep-alive timer is running: the
\* timer a submission starts is stopped before its handler ends, when the
\* request was created (with or without a form failure) and when the
\* create-request call failed.
C15_TypingTimerStopped ==
  timers = 0

\* C15 witness: a retry whose create-request call failed again has ended
\* without leaving a timer
C15_Witness ==
  /\ timers = 0
  /\ CreateFailed(ev)
  /\ ev.text = "retry"
  /\ store[ev.conv].step = "confirm"

\* the ids of the questions of a template in upstream order: the order of the
\* sections, or of the keys when no section lists a question
UpstreamQuestionIds(formTemplate) ==
  IF IsNull(formTemplate) THEN <<>>
  ELSE IF Len(Flatten(formTemplate.sections)) > 0 THEN Flatten(formTemplate.sections)
  ELSE formTemplate.keys

\* the first position of a question id in the upstream order
UpstreamPosition(formTemplate, id) ==
  LET ids == UpstreamQuestionIds(formTemplate)
  IN CHOOSE i \in 1..Len(ids) : ids[i] = id /\ \A j \in 1..(i - 1) : ids[j] # id

\* the list of Field Reconciliation: the portal fields once each, in order,
\* first; then form fields only, in upstream order; no fieldId twice
ReconciledListShape(portalFields, formTemplate, allFields) ==
  /\ Len(allFields) >= Len(portalFields)
  /\ \A i \in 1..Len(portalFields) :
       /\ allFields[i].source = "portal"
       /\ allFields[i].fieldId = portalFields[i].fieldId
       /\ allFields[i].name.label = portalFields[i].name
  /\ \A i \in (Len(portalFields) + 1)..Len(allFields) :
       /\ allFields[i].source = "form"
       /\ allFields[i].formQuestionId \in
            {UpstreamQuestionIds(formTemplate)[k] :
               k \in 1..Len(UpstreamQuestionIds(formTemplate))}
  /\ \A i, j \in (Len(portalFields) + 1)..Len(allFields) :
       i < j => UpstreamPosition(formTemplate, allFields[i].formQuestionId)
                  < UpstreamPosition(formTemplate, allFields[j].formQuestionId)
  /\ \A i, j \in 1..Len(allFields) :
       i # j => allFields[i].fieldId # allFields[j].fieldId

\* no two elements of the sequence are equal
Distinct(seq) == \A i, j \in 1..Len(seq) : i # j => seq[i] # seq[j]

CurrentField(state) ==
  state.fieldCollection.fields[state.fieldCollection.currentFieldIndex + 1]

\* a message that reaches the validator of the field under the cursor while
\* no custom value is awaited
FieldInputOf(c) ==
  /\ ev'.conv = c
  /\ StepOf(store[c]) = "collect_field"
  /\ ~awaitingCustomValue(store[c])
  /\ ev'.text \notin {"back", "cancel", "CANCEL"}

\* the cursor moved by one and the step follows it
Advanced(old, new) ==
  /\ new.fieldCollection.currentFieldIndex = old.fieldCollection.currentFieldIndex + 1
  /\ new.step = IF new.fieldCollection.currentFieldIndex = Len(old.fieldCollection.fields)
                  THEN "confirm" ELSE "collect_field"
  /\ new.fieldCollection.fields = old.fieldCollection.fields
  /\ ~new.fieldCollection.awaitingCustomValue

\* obj with obj[key] = value and every other entry as before
With(obj, key, value) ==
  [k \in DOMAIN obj \cup {key} |-> IF k = key THEN value ELSE obj[k]]

\* C17: skip on a required field (no custom value awaited) is rejected and
\* leaves the stored state as it was; on an optional field it stores null for
\* that field only and advances the cursor by one, to confirm after the last
\* field.
C17_SkipRequiredRejected ==
  [][\A c \in DOMAIN store :
       (FieldInputOf(c) /\ ev'.text = "skip")
       => LET old == store[c]
              new == store'[c]
              field == CurrentField(old)
          IN IF field.required
               THEN /\ store' = store
                    /\ ev'.replies = <<Reply("required")>>
               ELSE /\ Advanced(old, new)
                    /\ IF field.source = "form"
                         THEN /\ new.fieldCollection.formAnswers =
                                   With(old.fieldCollection.formAnswers,
                                        field.formQuestionId, NullAns)
                              /\ new.fieldCollection.collectedValues =
                                   old.fieldCollection.collectedValues
                         ELSE /\ new.fieldCollection.collectedValues =
                                   With(old.fieldCollection.collectedValues,
                                        field.fieldId, NullVal)
                              /\ new.fieldCollection.formAnswers =
                                   old.fieldCollection.formAnswers]_vars

\* C17 witness: skip on the optional last field led to confirm
C17_Witness ==
  /\ HandledIn(ev, "collect_field")
  /\ ~ev.prevCustom
  /\ ev.text = "skip"
  /\ store[ev.conv].step = "confirm"
  /\ store[ev.conv].fieldCollection.currentFieldIndex = 2
  /\ "q2" \in DOMAIN store[ev.conv].fieldCollection.formAnswers
  /\ store[ev.conv].fieldCollection.formAnswers["q2"] = NullAns

\* the elements of a comma-separated input as numbers, -1 for no number
ElementsOf(text) ==
  [i \in 1..Len(split(text)) |->
     IF IsNaN(split(text)[i]) THEN -1 ELSE parseInt(split(text)[i])]

\* C18: on a multiselect field with N choices an input is accepted only if
\* every comma-separated element is an index in 1..N: then the stored value
\* is the list of the ids of exactly these choices and the cursor advances by
\* one; otherwise the input is rejected with the range, nothing is stored and
\* the cursor stays.
C18_MultiselectAllOrNothing ==
  [][\A c \in DOMAIN store :
       (/\ FieldInputOf(c)
        /\ ev'.text # "skip"
        /\ getFieldType(CurrentField(store[c])) = "multiselect"
        /\ Len(CurrentField(store[c]).validValues) > 0)
       => LET old == store[c]
              new == store'[c]
              field == CurrentField(old)
              n == Len(field.validValues)
              chosen == ElementsOf(ev'.text)
          IN IF \A i \in 1..Len(chosen) : chosen[i] >= 1 /\ chosen[i] <= n
               THEN /\ Advanced(old, new)
                    /\ new.fieldCollection.collectedValues =
                         With(old.fieldCollection.collectedValues, field.fieldId,
                              IdsVal([i \in 1..Len(chosen) |->
                                        field.validValues[chosen[i]].id]))
                    /\ new.fieldCollection.formAnswers = old.fieldCollection.formAnswers
               ELSE /\ store' = store
                    /\ Len(ev'.replies) = 1
                    /\ ev'.replies[1].kind = "invalid_choice"
                    /\ ev'.replies[1].n = n]_vars

\* C18 witness: "1,9" against three choices was rejected, nothing was stored
C18_Witness ==
  /\ HandledIn(ev, "collect_field")
  /\ ev.text = "1,9"
  /\ LastReply(ev).kind = "invalid_choice"
  /\ LastReply(ev).n = 3
  /\ store[ev.conv].step = "collect_field"
  /\ store[ev.conv].fieldCollection.currentFieldIndex = 0
  /\ store[ev.conv].fieldCollection.collectedValues = <<>>

\* C19: on a select field with N choices an index in 1..N that is not the
\* synthetic Other entry stores the id of that choice ({id} for a portal
\* field, {choices:[id]} for a form field) and advances the cursor by one;
\* the Other entry sets awaitingCustomValue and changes nothing else; any
\* other input is rejected with the range 1-N and changes nothing.
C19_SelectByIndex ==
  [][\A c \in DOMAIN store :
       (/\ FieldInputOf(c)
        /\ ev'.text # "skip"
        /\ getFieldType(CurrentField(store[c])) = "select"
        /\ Len(CurrentField(store[c]).validValues) > 0)
       => LET old == store[c]
              new == store'[c]
              field == CurrentField(old)
              n == Len(field.validValues)
              i == IF ev'.text \in NumTexts THEN parseInt(ev'.text) ELSE -1
          IN IF i >= 1 /\ i <= n /\ field.validValues[i].id # "__other__"
               THEN /\ Advanced(old, new)
                    /\ IF field.source = "form"
                         THEN /\ new.fieldCollection.formAnswers =
                                   With(old.fieldCollection.formAnswers,
                                        field.formQuestionId,
                                        ChoiceAns(field.validValues[i].id))
                              /\ new.fieldCollection.collectedValues =
                                   old.fieldCollection.collectedValues
                         ELSE /\ new.fieldCollection.collectedValues =
                                   With(old.fieldCollection.collectedValues,
                                        field.fieldId, IdVal(field.validValues[i].id))
                              /\ new.fieldCollection.formAnswers =
                                   old.fieldCollection.formAnswers
             ELSE IF i >= 1 /\ i <= n
               THEN new = [old EXCEPT !.fieldCollection.awaitingCustomValue = TRUE]
             ELSE /\ store' = store
                  /\ Len(ev'.replies) = 1
                  /\ ev'.replies[1].kind = "invalid_choice"
                  /\ ev'.replies[1].n = n]_vars

\* C19 witness: the Other entry of a form dropdown was chosen
C19_Witness ==
  /\ HandledIn(ev, "collect_field")
  /\ ~ev.prevCustom
  /\ ev.text = "2"
  /\ ev.prevIndex = 1
  /\ store[ev.conv].step = "collect_field"
  /\ store[ev.conv].fieldCollection.currentFieldIndex = 1
  /\ store[ev.conv].fieldCollection.awaitingCustomValue
  /\ "q2" \notin DOMAIN store[ev.conv].fieldCollection.formAnswers
  /\ "customfield_1" \in DOMAIN store[ev.conv].fieldCollection.collectedValues
  /\ store[ev.conv].fieldCollection.collectedValues["customfield_1"] = IdVal("u1")

\* C20: after the request-type list was rendered, the cached fields of a
\* listed request type are the upstream fields when its field fetch
\* succeeded and the empty list when it failed, its cached form is the
\* upstream form when its form fetch succeeded and null when it failed,
\* whatever happened to the fetches of the other request types; the list was
\* sent and the step is select_request_type.
C20_FetchFailureIsPerType ==
  \A c \in DOMAIN store :
    (ev.conv = c /\ ev.route = "itsm" /\ Len(ev.replies) > 0
       /\ LastReply(ev).kind = "request_types")
    => /\ store[c].step = "select_request_type"
       /\ Len(ev.replies) = 1
       /\ Len(ev.calls) = 2 * LengthOf(store[c].filteredRequestTypes)
       /\ \A i \in 1..Len(ev.calls) :
            LET call == ev.calls[i]
            IN /\ call.op \in {"getPortalFields", "getRequestTypeForm"}
               /\ call.arg \in IdsOf(store[c].filteredRequestTypes)
               /\ call.op = "getPortalFields"
                    => store[c].requestTypeFieldsCache[call.arg]
                         = IF call.result = "error" THEN <<>>
                           ELSE UpPortalFields(call.arg)
               /\ call.op = "getRequestTypeForm"
                    => store[c].requestTypeFormsCache[call.arg]
                         = IF call.result = "error" THEN NullV
                           ELSE UpForm(call.arg)

\* C20 witness: the field fetch of one request type failed, the fields of
\* another and its form are cached
C20_Witness ==
  /\ ev.route = "itsm"
  /\ Len(ev.replies) = 1
  /\ LastReply(ev).kind = "request_types"
  /\ \E i \in 1..Len(ev.calls) :
       /\ ev.calls[i].op = "getPortalFields"
       /\ ev.calls[i].arg = "rt3"
       /\ ev.calls[i].result = "error"
  /\ store[ev.conv].requestTypeFieldsCache["rt3"] = <<>>
  /\ Len(store[ev.conv].requestTypeFieldsCache["rt5"]) = 1
  /\ store[ev.conv].requestTypeFormsCache["rt5"] # NullV
  /\ store[ev.conv].step = "select_request_type"

\* some call of the message ended with an error
FailedCall(e, ops) ==
  \E i \in 1..Len(e.calls) : e.calls[i].op \in ops /\ e.calls[i].result = "error"

\* C21: a failed fetch of the service desks (on create request) or of the
\* portal groups or request types (on a valid service-desk selection) sends
\* the error and changes no stored state: no state exists in the first case;
\* in the second the step is still select_service_desk and no
\* selectedServiceDesk, portalGroups or requestTypes is recorded.
C21_ListFetchFailureKeepsState ==
  [][\A c \in DOMAIN store :
       (ev'.conv = c /\ FailedCall(ev', {"getServiceDesks", "getPortalGroups",
                                         "getRequestTypes"}))
       => /\ store' = store
          /\ ev'.replies = <<Reply("error")>>
          /\ IF FailedCall(ev', {"getServiceDesks"})
               THEN store'[c] = NoState
               ELSE /\ store'[c].step = "select_service_desk"
                    /\ store'[c].selectedServiceDesk = NullV
                    /\ store'[c].portalGroups = NullList
                    /\ store'[c].requestTypes = NullList]_vars

\* C21 witness: a valid service-desk selection whose portal-group fetch failed
C21_Witness ==
  /\ HandledIn(ev, "select_service_desk")
  /\ ev.text = "1"
  /\ FailedCall(ev, {"getPortalGroups"})
  /\ LastReply(ev).kind = "error"
  /\ store[ev.conv].step = "select_service_desk"
  /\ store[ev.conv].selectedServiceDesk = NullV

\* C22: selecting a request type whose portal-fields fetch has failed (its
\* cached field list is empty although the upstream list is not) reports the
\* error and leaves the step select_request_type with no selectedRequestType
\* and no fieldCollection.
C22_FailedFieldFetchBlocksSelection ==
  [][\A c \in DOMAIN store :
       (/\ ev'.conv = c
        /\ Dispatched(c, ev'.text, "select_request_type")
        /\ ~IsNullList(store[c].filteredRequestTypes)
        /\ LET selected == selectFromList(ev'.text, store[c].filteredRequestTypes, FALSE)
           IN /\ ~IsNull(selected)
              /\ selected.id \in DOMAIN store[c].requestTypeFieldsCache
              /\ store[c].requestTypeFieldsCache[selected.id] = <<>>
              /\ UpPortalFields(selected.id) # <<>>)
       => /\ store'[c].step = "select_request_type"
          /\ store'[c].selectedRequestType = NullV
          /\ store'[c].fieldCollection = NullV
          /\ ev'.replies = <<Reply("error")>>]_vars

EntryCommands == {"itsm create", "create request"}

\* C23: a message is handled by the ITSM flow exactly when the stored state
\* of its conversation has an open ITSM flow. While a flow is open an entry
\* command is input of the current step: no service-desk fetch is made, the
\* state stays, with its service desks and its selections, in the same step
\* (or moves on from collect_field as any field input does). With no state
\* stored the message goes to command dispatch, which leaves no state or the
\* freshly started one.
C23_RoutedIffFlowOpen ==
  [][\A c \in DOMAIN store :
       ev'.conv = c
       => /\ (ev'.route = "itsm") <=> awaitingITSMDetails(store[c])
          /\ (ev'.route = "command") <=> ~awaitingITSMDetails(store[c])
          /\ (awaitingITSMDetails(store[c]) /\ toLowerCase(ev'.text) \in EntryCommands)
             => /\ CallsOf(ev', "getServiceDesks") = <<>>
                /\ awaitingITSMDetails(store'[c])
                /\ store'[c].serviceDesks = store[c].serviceDesks
                /\ store'[c].selectedServiceDesk = store[c].selectedServiceDesk
                /\ store'[c].selectedPortalGroup = store[c].selectedPortalGroup
                /\ store'[c].selectedRequestType = store[c].selectedRequestType
                /\ \/ store'[c].step = store[c].step
                   \/ /\ store[c].step = "collect_field"
                      /\ store'[c].step = "confirm"
                      /\ Advanced(store[c], store'[c])
          /\ store[c] = NoState
             => store'[c] \in {NoState, NewState(UpServiceDesks)}]_vars

\* C23 witness: `itsm create` typed into an open flow was stored as the text
\* of the current field
C23_Witness ==
  /\ HandledIn(ev, "collect_field")
  /\ ev.text = "itsm create"
  /\ CallsOf(ev, "getServiceDesks") = <<>>
  /\ store[ev.conv].step = "confirm"
  /\ "customfield_2" \in DOMAIN store[ev.conv].fieldCollection.collectedValues
  /\ store[ev.conv].fieldCollection.collectedValues["customfield_2"] = TextVal("itsm create")

\* C24: handling a message of one conversation leaves the stored state of
\* every other conversation as it was, whatever the message does: a
\* selection, a field input, back, cancel, a submission or the deletion of
\* the state.
C24_OtherConversationsUntouched ==
  [][\A a \in DOMAIN store, b \in DOMAIN store :
       (a # b /\ ev'.conv = a /\ ev' # ev) => store'[b] = store[b]]_vars

\* C24 witness: the first conversation's request was created with collected
\* values and its state deleted while the second conversation waits in
\* confirm with its own selection
C24_Witness ==
  /\ DOMAIN store = TwoConvs
  /\ ev.conv = "c1"
  /\ CreateOk(ev)
  /\ CallsOf(ev, "createRequest")[1].arg.requestFieldValues # <<>>
  /\ store["c1"] = NoState
  /\ store["c2"] # NoState
  /\ store["c2"].step = "confirm"
  /\ store["c2"].selectedRequestType # NullV

\* the handler that resumed in the step: it left the suspended handlers
Resumed(i) ==
  /\ i \in 1..Len(pending.handlers)
  /\ pending'.handlers = Remove(pending.handlers, i)
  /\ ev'.route = "resume"
  /\ ev'.conv = pending.handlers[i].conv
  /\ ev'.text = pending.handlers[i].text

\* C25: handlers of one conversation are not mutually excluded. A
\* service-desk handler that resumes with both lists fetched stores its own
\* state object, changed by it, under the conversation id, whatever the Map
\* holds at that moment (nothing, after a cancel, included); and every
\* confirmation handled while the step is confirm and no required field is
\* missing issues a create-request call, whether or not another one is in
\* flight.
C25_HandlersNotExcluded ==
  [][/\ \A i \in 1..MaxPending :
          (/\ Resumed(i)
           /\ pending.handlers[i].op = "handleServiceDesk"
           /\ LastReply(ev').kind = "portal_groups")
          => LET h == pending.handlers[i]
             IN store'[h.conv] =
                  [pending.heap[h.obj] EXCEPT
                     !.selectedServiceDesk = h.selected,
                     !.portalGroups = UpPortalGroups(h.selected.id),
                     !.requestTypes = UpRequestTypes(h.selected.id),
                     !.step = "select_portal_group"]
     /\ \A c \in DOMAIN store :
          (/\ ev'.conv = c
           /\ ev'.route = "itsm"
           /\ ev'.prev = "confirm"
           /\ IsSubmit(ev'.text)
           /\ Len(getMissingRequiredFields(store[c].fieldCollection)) = 0)
          => /\ Len(CallsOf(ev', "createRequest")) = 1
             /\ Len(pending'.handlers) = Len(pending.handlers) + 1
             /\ store' = store]_vars

\* C25 witness: a state deleted by cancel was stored again by a handler that
\* was in flight, and later two confirmations of that flow each have a
\* create-request call in flight
C25_Witness ==
  /\ pending.resurrected
  /\ Len(pending.handlers) = 2
  /\ pending.handlers[1].op = "createRequest"
  /\ pending.handlers[2].op = "createRequest"
  /\ pending.handlers[1].obj = pending.handlers[2].obj
  /\ store["c1"] # NoState
  /\ store["c1"].step = "confirm"
  /\ timers = 2

\* the form questions in upstream order whose label, trimmed and lowercased,
\* is the trimmed lowercased name
QuestionsLabelled(formQuestions, name) ==
  SelectSeq(formQuestions, LAMBDA q : trim(toLowerCase(q.label)) = trim(toLowerCase(name)))

\* every portal entry carries the id of the first form question with its
\* label, null when there is none
PortalEntriesLinked ==
  \A i \in 1..Len(pure.portalFields) :
    LET matching == QuestionsLabelled(pure.formQuestions, pure.portalFields[i].name)
    IN pure.allFields[i].formQuestionId =
         IF Len(matching) = 0 THEN NullId ELSE matching[1].id

\* the form questions emitted as form-only fields
EmittedFormOnly ==
  {pure.allFields[i].formQuestionId :
     i \in (Len(pure.portalFields) + 1)..Len(pure.allFields)}

\* the question ids are in upstream order (sections first)
QuestionsInUpstreamOrder ==
  [i \in 1..Len(pure.formQuestions) |-> pure.formQuestions[i].id]
    = UpstreamQuestionIds(pure.formTemplate)

FormOnlyFields == SubSeq(pure.allFields, Len(pure.portalFields) + 1, Len(pure.allFields))

\* how many form-only fields up to position i carry the label of field i
OccurrenceOf(fields, i) ==
  Cardinality({j \in 1..i : fields[j].name.label = fields[i].name.label})

\* the questions that are not suppressed by a portal label, in upstream order
UnsuppressedQuestions ==
  SelectSeq(pure.formQuestions,
            LAMBDA q : \A i \in 1..Len(pure.portalFields) :
                         toLowerCase(q.label) # toLowerCase(pure.portalFields[i].name))

\* C27: among the form-only fields every repeated occurrence of a label is a
\* table row: it carries the next row number of its label, the display name
\* "<label> (Row <n>)" and isTableField; every occurrence keeps its own
\* question id with fieldId "form_" + id, the occurrences are in upstream
\* order, and no two fields of one label share a row number or a display name.
C27_RepeatedLabelsAreRows ==
  pure.op = "reconciled"
    => LET f == FormOnlyFields
       IN /\ Len(f) = Len(UnsuppressedQuestions)
          /\ \A i \in 1..Len(f) :
               /\ f[i].formQuestionId = UnsuppressedQuestions[i].id
               /\ f[i].fieldId = "form_" \o UnsuppressedQuestions[i].id
               /\ f[i].name.label = UnsuppressedQuestions[i].label
               /\ OccurrenceOf(f, i) > 1
                    => /\ f[i].isTableField
                       /\ f[i].rowNumber = OccurrenceOf(f, i)
                       /\ f[i].name = Name(f[i].name.label, OccurrenceOf(f, i))
          /\ \A i, j \in 1..Len(f) :
               (i < j /\ f[i].name.label = f[j].name.label)
                 => /\ f[i].rowNumber # f[j].rowNumber
                    /\ f[i].name # f[j].name

\* C27 witness: two questions labelled Impact after another question; the
\* second of them is row 2
C27_Witness ==
  /\ pure.op = "reconciled"
  /\ Len(FormOnlyFields) = 3
  /\ FormOnlyFields[2].formQuestionId = "q3"
  /\ FormOnlyFields[3].formQuestionId = "q2"
  /\ FormOnlyFields[3].isTableField
  /\ FormOnlyFields[3].rowNumber = 2
  /\ FormOnlyFields[3].name = Name("Impact", 2)

\* C28: the validator's precedence in collect_field. While a custom value is
\* awaited every input that reaches the validator, the word skip included,
\* is stored as the literal value, the cursor advances and the flag is
\* cleared, except that an empty value is rejected on a required field.
\* Otherwise skip is decided by `required` alone, whatever the field type;
\* and on an attachment field every other input stores null and advances.
C28_ValidatorPrecedence ==
  [][\A c \in DOMAIN store :
       (/\ ev'.conv = c
        /\ StepOf(store[c]) = "collect_field"
        /\ toLowerCase(ev'.text) \notin {"back", "cancel"})
       => LET old == store[c]
              new == store'[c]
              field == CurrentField(old)
              stored(portalValue, formAnswer) ==
                /\ Advanced(old, new)
                /\ IF field.source = "form"
                     THEN /\ new.fieldCollection.formAnswers =
                               With(old.fieldCollection.formAnswers,
                                    field.formQuestionId, formAnswer)
                          /\ new.fieldCollection.collectedValues =
                               old.fieldCollection.collectedValues
                     ELSE /\ new.fieldCollection.collectedValues =
                               With(old.fieldCollection.collectedValues,
                                    field.fieldId, portalValue)
                          /\ new.fieldCollection.formAnswers =
                               old.fieldCollection.formAnswers
          IN IF awaitingCustomValue(old)
               THEN IF ev'.text = "" /\ field.required
                      THEN store' = store /\ ev'.replies = <<Reply("required")>>
                      ELSE stored(TextVal(ev'.text), TextAns(ev'.text))
             ELSE IF ev'.text = "skip"
               THEN IF field.required
                      THEN store' = store /\ ev'.replies = <<Reply("required")>>
                      ELSE stored(NullVal, NullAns)
             ELSE (field.fieldId = "attachment" \/ field.items = "attachment")
                    => stored(NullVal, NullAns)]_vars

\* C28 witness: the word skip, typed while a custom value was awaited for a
\* required dropdown, was stored as the answer
C28_Witness ==
  /\ HandledIn(ev, "collect_field")
  /\ ev.prevCustom
  /\ ev.text = "skip"
  /\ ev.prevIndex = 0
  /\ store[ev.conv].step = "collect_field"
  /\ store[ev.conv].fieldCollection.currentFieldIndex = 1
  /\ ~store[ev.conv].fieldCollection.awaitingCustomValue
  /\ store[ev.conv].fieldCollection.fields[1].required
  /\ "q1" \in DOMAIN store[ev.conv].fieldCollection.formAnswers
  /\ store[ev.conv].fieldCollection.formAnswers["q1"] = TextAns("skip")

\* some call before position i of the message's calls is `op` with a result
\* in `results`
CalledBefore(e, i, op, results) ==
  \E j \in 1..(i - 1) : e.calls[j].op = op /\ e.calls[j].result \in results

\* the id attachAndFillForm resolves from a template, "" when it has none
ResolvableId(formTemplate) ==
  IF IsNull(formTemplate) THEN ""
  ELSE IF formTemplate.id # "" THEN formTemplate.id
  ELSE IF formTemplate.templateId # "" THEN formTemplate.templateId
  ELSE formTemplate.nestedId

\* C29: the form calls of a submission are ordered and gated. attachForm is
\* called only after a successful create-request call and only for a form
\* template with a resolvable id, which it is given; setFormExternal only
\* after attachForm returned a form id; saveFormAnswers only after
\* setFormExternal succeeded; each at most once; and none of them without a
\* form template.
C29_FormCallsOrderedAndGated ==
  [][\A c \in DOMAIN store :
       (ev'.conv = c /\ ev'.route = "itsm" /\ ev'.prev = "confirm")
       => LET e == ev'
              template == store[c].formTemplate
          IN /\ \A i \in 1..Len(e.calls) :
                  /\ e.calls[i].op = "attachFormToIssue"
                       => /\ CalledBefore(e, i, "createRequest", IssueKeys)
                          /\ ResolvableId(template) # ""
                          /\ e.calls[i].arg = ResolvableId(template)
                  /\ e.calls[i].op = "setFormExternal"
                       => CalledBefore(e, i, "attachFormToIssue", {"ok"})
                  /\ e.calls[i].op = "saveFormAnswers"
                       => CalledBefore(e, i, "setFormExternal", {"ok"})
             /\ \A op \in FormOps : Len(CallsOf(e, op)) <= 1
             /\ ResolvableId(template) = "" => \A op \in FormOps : CallsOf(e, op) = <<>>]_vars

\* C29 witness: a submission that made all four calls in order
C29_Witness ==
  /\ HandledIn(ev, "confirm")
  /\ Len(ev.calls) = 4
  /\ ev.calls[1].op = "createRequest"
  /\ ev.calls[2].op = "attachFormToIssue"
  /\ ev.calls[2].arg = "tpl2"
  /\ ev.calls[3].op = "setFormExternal"
  /\ ev.calls[4].op = "saveFormAnswers"
  /\ ev.calls[4].result = "ok"
  /\ LastReply(ev).note = "form_attached_and_filled"

\* the form questions a field collection has a sendable portal value for:
\* those cross-referenced by a portal field whose collected value is neither
\* missing, null nor ''
LinkedQuestions(fc) ==
  {fc.fields[i].formQuestionId :
     i \in {j \in 1..Len(fc.fields) :
              /\ fc.fields[j].source = "portal"
              /\ fc.fields[j].formQuestionId # NullId
              /\ fc.fields[j].fieldId \in DOMAIN fc.collectedValues
              /\ fc.collectedValues[fc.fields[j].fieldId] \notin {NullVal, TextVal("")}}}

\* the form questions a field collection holds a non-null answer of
AnsweredQuestions(fc) ==
  {q \in DOMAIN fc.formAnswers : fc.formAnswers[q] # NullAns}

\* C30: the answers given to saveFormAnswers are every non-null entry of
\* formAnswers, as collected, plus a text answer under the question id of
\* every portal field that cross-references a form question and has a
\* non-empty collected value; no answer sent is null; and when that set is
\* empty saveFormAnswers is not called, while a non-empty set is saved once
\* the form is attached and marked external.
C30_SavedAnswerSet ==
  [][\A c \in DOMAIN store :
       (ev'.conv = c /\ ev'.route = "itsm" /\ ev'.prev = "confirm"
          /\ CallsOf(ev', "setFormExternal") # <<>>)
       => LET e == ev'
              fc == store[c].fieldCollection
              saves == CallsOf(e, "saveFormAnswers")
              expected == AnsweredQuestions(fc) \cup LinkedQuestions(fc)
          IN /\ \A i \in 1..Len(saves) :
                  /\ DOMAIN saves[i].arg = expected
                  /\ \A q \in AnsweredQuestions(fc) \ LinkedQuestions(fc) :
                       saves[i].arg[q] = fc.formAnswers[q]
                  /\ \A q \in LinkedQuestions(fc) : saves[i].arg[q].k = "text"
                  /\ \A q \in DOMAIN saves[i].arg : saves[i].arg[q] # NullAns
             /\ expected = {} => saves = <<>>
             /\ (expected # {} /\ CallsOf(e, "setFormExternal")[1].result = "ok")
                  => Len(saves) = 1]_vars

\* C30 witness: a saved answer set holding the text of the portal field
\* Urgency under q1 while the skipped question q2 is left out
C30_Witness ==
  /\ HandledIn(ev, "confirm")
  /\ CallsOf(ev, "saveFormAnswers") # <<>>
  /\ LET arg == CallsOf(ev, "saveFormAnswers")[1].arg
     IN /\ "q1" \in DOMAIN arg
        /\ arg["q1"].k = "text"
        /\ "q2" \notin DOMAIN arg

\* C30, the empty case: a form was attached and nothing was saved
\* because every answer was skipped
C30_EmptyReached ==
  /\ HandledIn(ev, "confirm")
  /\ LastReply(ev).note = "form_attached"
  /\ CallsOf(ev, "saveFormAnswers") = <<>>

\* the positions of the request types of a list that carry the group's id,
\* as a string or as an integer, in their groupIds
PositionsInGroup(requestTypes, group) ==
  {i \in 1..Len(requestTypes) :
     /\ requestTypes[i].groupIds # NullList
     /\ \E k \in 1..Len(requestTypes[i].groupIds) :
          /\ requestTypes[i].groupIds[k].v = group.id.v
          /\ requestTypes[i].groupIds[k].t \in {"str", "int"}}

\* the k-th smallest element of a set of positions
KthOf(positions, k) ==
  CHOOSE i \in positions : Cardinality({j \in positions : j <= i}) = k

\* C31: after a valid portal-group selection filteredRequestTypes is the
\* sub-list, in the original order, of the request types whose groupIds
\* contains the selected group's id as a string or as an integer; request
\* types without groupIds are left out; and the step is select_request_type,
\* also when the sub-list is empty.
C31_FilteredByGroup ==
  [][\A c \in DOMAIN store :
       (/\ ev'.conv = c
        /\ ev'.route = "itsm"
        /\ StepOf(store[c]) = "select_portal_group"
        /\ ev'.text \in NumTexts
        /\ parseInt(ev'.text) \in 1..Len(store[c].portalGroups))
       => LET group == store[c].portalGroups[parseInt(ev'.text)]
              all == store[c].requestTypes
              positions == PositionsInGroup(all, group)
              filtered == store'[c].filteredRequestTypes
          IN /\ store'[c].step = "select_request_type"
             /\ store'[c].selectedPortalGroup = group
             /\ store'[c].requestTypes = all
             /\ Len(filtered) = Cardinality(positions)
             /\ \A k \in 1..Len(filtered) : filtered[k] = all[KthOf(positions, k)]
             /\ \A i \in 1..Len(all) :
                  all[i].groupIds = NullList
                    => \A k \in 1..Len(filtered) : filtered[k] # all[i]]_vars

\* C31 witness: the second category keeps rt3 (string id) and rt5 (integer
\* id) in that order and drops rt4, which has no groupIds
C31_Witness ==
  /\ HandledIn(ev, "select_portal_group")
  /\ ev.text = "2"
  /\ store[ev.conv] # NoState
  /\ store[ev.conv].step = "select_request_type"
  /\ Len(store[ev.conv].filteredRequestTypes) = 2
  /\ store[ev.conv].filteredRequestTypes[1].id = "rt3"
  /\ store[ev.conv].filteredRequestTypes[2].id = "rt5"

\* C31, the empty case: a category without request types was selected
C31_EmptyReached ==
  /\ HandledIn(ev, "select_portal_group")
  /\ ev.text = "3"
  /\ store[ev.conv] # NoState
  /\ store[ev.conv].step = "select_request_type"
  /\ store[ev.conv].filteredRequestTypes = <<>>

\* C32: the state holds a fieldCollection only while the step is
\* collect_field or confirm; in select_service_desk, select_portal_group and
\* select_request_type it holds none.
C32_FieldCollectionOnlyWhileCollecting ==
  \A c \in DOMAIN store :
    (store[c] # NoState
       /\ store[c].step \in {"select_service_desk", "select_portal_group",
                             "select_request_type"})
    => store[c].fieldCollection = NullV

\* the calls of a message that fetch portal fields or a form
SelectionFetches(e) ==
  CallsOf(e, "getPortalFields") \o CallsOf(e, "getRequestTypeForm")

\* C33: once the request types of a category have been rendered every listed
\* request type has an entry in both caches; selecting a listed request type
\* that has its entries issues no portal-fields and no form fetch and builds
\* the field collection and the form template from the cached values; a
\* fetch at selection time is issued only for a request type without entry.
C33_SelectionUsesCache ==
  [][\A c \in DOMAIN store :
       (/\ ev'.conv = c
        /\ ev'.route = "itsm"
        /\ StepOf(store[c]) = "select_request_type"
        /\ ev'.text \in NumTexts
        /\ parseInt(ev'.text) \in 1..LengthOf(store[c].filteredRequestTypes))
       => LET old == store[c]
              selected == old.filteredRequestTypes[parseInt(ev'.text)]
              cached == /\ selected.id \in DOMAIN old.requestTypeFieldsCache
                        /\ selected.id \in DOMAIN old.requestTypeFormsCache
          IN /\ cached
             /\ cached =>
                  /\ SelectionFetches(ev') = <<>>
                  /\ store'[c].selectedRequestType = selected
                  /\ store'[c].formTemplate = old.requestTypeFormsCache[selected.id]
                  /\ store'[c].fieldCollection.fields =
                       prepareFieldsForCollection(
                         old.requestTypeFieldsCache[selected.id],
                         extractFormQuestions(old.requestTypeFormsCache[selected.id]))
             /\ \A i \in 1..Len(SelectionFetches(ev')) :
                  /\ SelectionFetches(ev')[i].arg = selected.id
                  /\ ~cached]_vars

\* C33 witness: rt2 selected after a rendering that cached its portal field
\* and its form: no call, both taken from the caches
C33_Witness ==
  /\ HandledIn(ev, "select_request_type")
  /\ ev.calls = <<>>
  /\ store[ev.conv] # NoState
  /\ store[ev.conv].step = "collect_field"
  /\ store[ev.conv].selectedRequestType.id = "rt2"
  /\ store[ev.conv].requestTypeFieldsCache["rt2"] = UpPortalFields("rt2")
  /\ store[ev.conv].formTemplate = store[ev.conv].requestTypeFormsCache["rt2"]
  /\ store[ev.conv].formTemplate # NullV
  /\ Len(store[ev.conv].fieldCollection.fields) = 2

\* the steps from a given step on, in the order of the flow
StepsFrom(step) ==
  CASE step = "select_service_desk" ->
         {"select_service_desk", "select_portal_group", "select_request_type",
          "collect_field", "confirm"}
    [] step = "select_portal_group" ->
         {"select_portal_group", "select_request_type", "collect_field", "confirm"}
    [] step = "select_request_type" ->
         {"select_request_type", "collect_field", "confirm"}
    [] step = "collect_field" -> {"collect_field", "confirm"}

\* C34: under one-message-at-a-time handling every stored state holds the
\* data its step needs: a non-empty serviceDesks in every step; from
\* select_portal_group on a selectedServiceDesk and a non-empty portalGroups
\* (and the request types of the desk); from select_request_type on a
\* selectedPortalGroup and a filteredRequestTypes list; in collect_field and
\* confirm a selectedRequestType and a fieldCollection; and in collect_field
\* a non-empty field list with the cursor inside it.
C34_StepDataPresent ==
  \A c \in DOMAIN store :
    store[c] # NoState =>
      LET state == store[c]
      IN /\ state.step \in StepsFrom("select_service_desk")
         /\ state.serviceDesks # NullList
         /\ Len(state.serviceDesks) > 0
         /\ state.step \in StepsFrom("select_portal_group")
              => /\ state.selectedServiceDesk # NullV
                 /\ state.portalGroups # NullList
                 /\ Len(state.portalGroups) > 0
                 /\ state.requestTypes # NullList
         /\ state.step \in StepsFrom("select_request_type")
              => /\ state.selectedPortalGroup # NullV
                 /\ state.filteredRequestTypes # NullList
         /\ state.step \in StepsFrom("collect_field")
              => /\ state.selectedRequestType # NullV
                 /\ state.fieldCollection # NullV
         /\ state.step = "collect_field"
              => /\ Len(state.fieldCollection.fields) > 0
                 /\ state.fieldCollection.currentFieldIndex
                      \in 0..(Len(state.fieldCollection.fields) - 1)

\* C34 witness: back from confirm returned to the last of two fields, with
\* every selection of the flow still stored
C34_Witness ==
  /\ HandledIn(ev, "confirm")
  /\ ev.text = "back"
  /\ store[ev.conv] # NoState
  /\ store[ev.conv].step = "collect_field"
  /\ store[ev.conv].fieldCollection.currentFieldIndex = 1
  /\ store[ev.conv].selectedServiceDesk # NullV
  /\ store[ev.conv].selectedPortalGroup # NullV
  /\ store[ev.conv].selectedRequestType.id = "rt2"

\* the field under the cursor offers the synthetic Other entry
OffersOther(state) ==
  /\ state.fieldCollection.currentFieldIndex
       \in 0..(Len(state.fieldCollection.fields) - 1)
  /\ LET field == state.fieldCollection.fields[state.fieldCollection.currentFieldIndex + 1]
     IN /\ getFieldType(field) \in {"select", "multiselect"}
        /\ \E i \in 1..Len(field.validValues) : field.validValues[i].id = "__other__"

\* C35: awaitingCustomValue is set only in collect_field, on a choice field
\* that offers the synthetic Other entry; it is not set in confirm, not after
\* a message that moved the cursor, and not after a back.
C35_AwaitingCustomValueScope ==
  [][\A c \in DOMAIN store :
       /\ awaitingCustomValue(store'[c])
            => /\ store'[c].step = "collect_field"
               /\ OffersOther(store'[c])
       /\ StepOf(store'[c]) = "confirm" => ~awaitingCustomValue(store'[c])
       /\ (CursorOf(store'[c]) # CursorOf(store[c]))
            => ~awaitingCustomValue(store'[c])
       /\ (ev'.conv = c /\ ev' # ev /\ toLowerCase(ev'.text) = "back")
            => ~awaitingCustomValue(store'[c])]_vars

\* C35 witness: back typed while the custom value of Impact was awaited: the
\* flag is cleared, the cursor stays on Impact
C35_Witness ==
  /\ HandledIn(ev, "collect_field")
  /\ ev.text = "back"
  /\ ev.prevCustom
  /\ ev.prevIndex = 1
  /\ store[ev.conv] # NoState
  /\ store[ev.conv].step = "collect_field"
  /\ store[ev.conv].fieldCollection.currentFieldIndex = 1
  /\ ~store[ev.conv].fieldCollection.awaitingCustomValue

\* fields.length of a state, 0 without fieldCollection
FieldCount(state) ==
  IF state = NoState \/ state.fieldCollection = NullV THEN 0
  ELSE Len(state.fieldCollection.fields)

\* the number of `back` messages that delete the state
BacksLeft(state) ==
  CASE state = NoState -> 0
    [] state # NoState /\ state.step = "select_service_desk" -> 1
    [] state # NoState /\ state.step = "select_portal_group" -> 2
    [] state # NoState /\ state.step = "select_request_type" -> 3
    [] state # NoState /\ state.step = "collect_field" ->
         4 + state.fieldCollection.currentFieldIndex
           + (IF state.fieldCollection.awaitingCustomValue THEN 1 ELSE 0)
    [] state # NoState /\ state.step = "confirm" -> 4 + FieldCount(state)

\* the step before a step; the step before confirm with an empty field list
\* is select_request_type
PreviousStep(state) ==
  CASE state.step = "select_portal_group" -> "select_service_desk"
    [] state.step = "select_request_type" -> "select_portal_group"
    [] state.step = "collect_field" -> "select_request_type"
    [] state.step = "confirm" ->
         IF FieldCount(state) > 0 THEN "collect_field" ELSE "select_request_type"
    [] OTHER -> "none"

\* C36: repeating back ends the flow. Every back handled in an open flow,
\* whatever the fetches of the re-rendered list answer, does exactly one of:
\* clear awaitingCustomValue, lower the cursor by one, move to the previous
\* step, delete the state; it lowers the number of backs left by one, and
\* that number is at most fields.length + 5 in every state, so the state is
\* deleted after at most fields.length + 5 messages.
C36_BackTerminates ==
  [][\A c \in DOMAIN store :
       /\ BacksLeft(store'[c]) <= FieldCount(store'[c]) + 5
       /\ (ev'.conv = c /\ ev'.text = "back" /\ awaitingITSMDetails(store[c]))
            => LET old == store[c]
                   new == store'[c]
               IN /\ ev'.route = "itsm"
                  /\ BacksLeft(new) = BacksLeft(old) - 1
                  /\ \/ /\ awaitingCustomValue(old)
                        /\ ~awaitingCustomValue(new)
                        /\ new.step = old.step
                        /\ CursorOf(new) = CursorOf(old)
                     \/ /\ ~awaitingCustomValue(old)
                        /\ new # NoState
                        /\ new.step = old.step
                        /\ CursorOf(new) = CursorOf(old) - 1
                     \/ /\ ~awaitingCustomValue(old)
                        /\ new # NoState
                        /\ new.step = PreviousStep(old)
                     \/ /\ old.step = "select_service_desk"
                        /\ new = NoState]_vars

\* C36 witness: the last back of a flow, handled in select_service_desk,
\* deleted the state
C36_Witness ==
  /\ HandledIn(ev, "select_service_desk")
  /\ ev.text = "back"
  /\ store[ev.conv] = NoState

\* the required fields of a field collection that have no stored value and
\* are of a type chat never stores a value for
Uncollectable(fc) ==
  {i \in 1..Len(fc.fields) :
     /\ fc.fields[i].required
     /\ IsMissing(fc, fc.fields[i])
     /\ getFieldType(fc.fields[i]) = "attachment"}

\* C37: every flow can be completed: in every confirm state each required
\* field that is still missing is one the user can go back to and give a
\* value, a required attachment field included, so that some sequence of
\* inputs leads to a confirm state in which yes issues the create-request
\* call.
C37_EveryFlowCompletable ==
  \A c \in DOMAIN store :
    (store[c] # NoState /\ store[c].step = "confirm")
    => Uncollectable(store[c].fieldCollection) = {}

\* what holds instead: no create-request call is ever issued for a field
\* list with a required attachment field, whatever the user types
C37_RequiredAttachmentBlocks ==
  [][\A c \in DOMAIN store :
       (ev'.conv = c /\ ev'.route = "itsm" /\ CallsOf(ev', "createRequest") # <<>>)
       => \A i \in 1..Len(store[c].fieldCollection.fields) :
            LET field == store[c].fieldCollection.fields[i]
            IN ~(field.required /\ getFieldType(field) = "attachment")]_vars

\* a yes in confirm of the request type with the required attachment field
\* was rejected with the missing field
C37_Rejected ==
  /\ HandledIn(ev, "confirm")
  /\ ev.text = "yes"
  /\ ev.calls = <<>>
  /\ store[ev.conv] # NoState
  /\ store[ev.conv].step = "confirm"
  /\ store[ev.conv].selectedRequestType.id = "rt3"

\* at least one of the two flows is open in the state
FlowOpen(state) == awaitingTicketDetails(state) \/ awaitingITSMDetails(state)

\* C38: a conversation never has the Jira ticket flow and the ITSM request
\* flow open together: no stored state carries both awaitingTicketDetails and
\* awaitingITSMDetails; a flow becomes open only by its entry command, routed
\* to command dispatch while no flow was open; and an entry command typed
\* while a flow is open is input of that flow and leaves the other flow
\* closed.
C38_OneFlowAtATime ==
  [][\A c \in DOMAIN store :
       /\ ~(awaitingTicketDetails(store'[c]) /\ awaitingITSMDetails(store'[c]))
       /\ (~awaitingTicketDetails(store[c]) /\ awaitingTicketDetails(store'[c]))
            => /\ ~FlowOpen(store[c])
               /\ ev'.conv = c
               /\ ev'.route = "command"
               /\ toLowerCase(ev'.text) \in {"jira create", "create ticket"}
       /\ (~awaitingITSMDetails(store[c]) /\ awaitingITSMDetails(store'[c]))
            => /\ ~FlowOpen(store[c])
               /\ ev'.conv = c
               /\ ev'.route = "command"
               /\ toLowerCase(ev'.text) \in {"itsm create", "create request"}
       /\ (ev'.conv = c /\ ev' # ev /\ awaitingTicketDetails(store[c]))
            => ev'.route = "jira" /\ ~awaitingITSMDetails(store'[c])
       /\ (ev'.conv = c /\ ev' # ev /\ awaitingITSMDetails(store[c]))
            => ev'.route = "itsm" /\ ~awaitingTicketDetails(store'[c])]_vars

\* C38 witness: `create request` typed in the first step of the ticket flow
\* became the summary of the ticket, no ITSM flow was started
C38_Witness ==
  /\ ev.route = "jira"
  /\ ev.prev = "summary"
  /\ ev.text = "create request"
  /\ awaitingTicketDetails(store[ev.conv])
  /\ ~awaitingITSMDetails(store[ev.conv])
  /\ store[ev.conv].step = "description"
  /\ store[ev.conv].ticketData["summary"] = "create request"

\* a fetch result that is a 4xx response other than 408 and 429
PlainClientError(result) ==
  /\ result.kind = "response"
  /\ result.status \in 400..499
  /\ result.status \notin {408, 429}

\* the status of the error a failed fetch is reported with
StatusOfFailure(result) ==
  IF result.kind = "response" THEN result.status
  ELSE IF result.kind = "abort" THEN 408
  ELSE 0

\* C39: request makes at most retries + 1 fetch attempts; a successful
\* response is the last attempt and its data is returned; an attempt is
\* followed by another one only if it failed while attempts remained; a 4xx
\* response other than 408 and 429 is the last attempt and is thrown; and the
\* request ends either returned with the data or thrown with the error of
\* its last attempt, the loop never running out of attempts otherwise.
C39_BoundedRetries ==
  pure.op = "request" =>
    LET n == Len(pure.fetches)
    IN /\ n <= pure.retries + 1
       /\ pure.phase \in {"loop", "returned", "thrown"}
       /\ pure.phase = "loop" => (pure.attempt = n /\ pure.attempt <= pure.retries)
       /\ \A i \in 1..n :
            /\ ok(pure.fetches[i]) => (i = n /\ pure.phase = "returned")
            /\ PlainClientError(pure.fetches[i]) => (i = n /\ pure.phase = "thrown")
            /\ i < n => (~ok(pure.fetches[i]) /\ i - 1 < pure.retries)
       /\ pure.phase = "returned"
            => (n >= 1 /\ ok(pure.fetches[n]) /\ pure.data = "data")
       /\ pure.phase = "thrown"
            => /\ n >= 1
               /\ ~ok(pure.fetches[n])
               /\ pure.lastError.status = StatusOfFailure(pure.fetches[n])
               /\ pure.data = ""

\* C39 witness: with two retries the third attempt succeeded after a 503 and
\* a timeout
C39_Witness ==
  /\ pure.op = "request"
  /\ pure.retries = 2
  /\ pure.phase = "returned"
  /\ Len(pure.fetches) = 3
  /\ pure.fetches[1] = Fetched("response", 503)
  /\ pure.fetches[2] = Fetched("abort", 0)
  /\ pure.waited = 3

\* the attempt i of the request failed while attempts remained and ended the
\* request
ThrownWithAttemptsLeft(i) ==
  /\ i = Len(pure.fetches)
  /\ i - 1 < pure.retries
  /\ pure.phase = "thrown"

\* C40: while attempts remain, a fetch that fails with a network error (no
\* HTTP response) is attempted again, exactly as a timed-out fetch or a 5xx
\* response is.
C40_NetworkErrorRetried ==
  pure.op = "request" =>
    \A i \in 1..Len(pure.fetches) :
      (\/ pure.fetches[i].kind \in {"rejected", "abort"}
       \/ (pure.fetches[i].kind = "response" /\ pure.fetches[i].status >= 500))
      => ~ThrownWithAttemptsLeft(i)

\* what holds instead: timed-out fetches and 5xx responses are attempted
\* again while attempts remain, a fetch rejected without response ends the
\* request at once
C40_NetworkErrorThrown ==
  pure.op = "request" =>
    \A i \in 1..Len(pure.fetches) :
      /\ (\/ pure.fetches[i].kind = "abort"
          \/ (pure.fetches[i].kind = "response" /\ pure.fetches[i].status >= 500))
           => ~ThrownWithAttemptsLeft(i)
      /\ pure.fetches[i].kind = "rejected"
           => (i = Len(pure.fetches) /\ pure.phase = "thrown"
                 /\ pure.lastError = networkError)

====
